---- MODULE Spec2Model ----
(***************************************************************************)
(* SubzCreator-Web: the background media processing job of the two upload  *)
(* routes (lib/media/ffmpeg + api/upload/process + api/upload/register),   *)
(* the temp file cleanup, and the subtitle segment splitter                *)
(* (lib/utils/segments).                                                   *)
(***************************************************************************)
EXTENDS Integers, Sequences, FiniteSets, TLC

VARIABLES
    pc,         \* job -> position of the request / background task
    req,        \* job -> the request: route, isVideo (mime / fileType), hasVideo (the source's streams)
    files,      \* the Files table: fileId (= job) -> record, or NoFile
    tempFiles,  \* job -> the tempFiles array of the POST handler
    result,     \* job -> what processMediaFile has produced so far
    urls,       \* job -> audioUrl / previewUrl / thumbnailUrl locals of processInBackground
    thrown,     \* job -> message of the error thrown into processInBackground's try block
    thumbFailed,\* job -> extractThumbnail threw (caught inside processMediaFile)
    disk,       \* the file system: set of canonical paths of existing files
    seg,        \* splitter: the input segment and options
    out,        \* splitter: the segments returned by splitSegment, or NotRun
    input,      \* text and export functions: the arguments of the call
    output,     \* text and export functions: the value returned, or NotRun
    tables,     \* delete routes: the rows of Transcriptions, TranscriptionSegments, TranslatedSegments, Files
    objects,    \* delete routes: the keys of the objects in the bucket
    del,        \* delete routes: the request being handled, its locals and its response
    loop,       \* splitTextIntoChunks: maxChars and the locals of its while loop
    rateLimitStore, \* rate limiter: identifier -> entry (count, resetTime), or NoEntry
    now,        \* rate limiter: Date.now()
    history,    \* rate limiter: the calls of checkRateLimit made so far and their results
    transcribe, \* transcription: position and locals of processTranscription
    translate   \* translation: request -> position and locals of its POST handler

jobVars  == <<pc, req, files, tempFiles, result, urls, thrown, thumbFailed>>
splitVars == <<seg, out>>
fnVars == <<input, output>>
delVars == <<tables, objects, del>>
svcVars == <<loop, rateLimitStore, now, history, transcribe, translate>>
vars == <<pc, req, files, tempFiles, result, urls, thrown, thumbFailed, disk, seg, out,
          input, output, tables, objects, del,
          loop, rateLimitStore, now, history, transcribe, translate>>

----------------------------------------------------------------------------
(* Paths. A path is a sequence of tokens; "/" is the separator, ".." the   *)
(* parent segment, every other token is one character (or, for a temp      *)
(* file name, the random uuid and the fixed suffix of its call site).      *)

TEMP_DIR == <<"/", "s">>

Join(dir, name) == dir \o <<"/">> \o name

StartsWith(s, p) == Len(s) >= Len(p) /\ SubSeq(s, 1, Len(p)) = p

\* path split at "/" into its segments (empty segments kept)
RECURSIVE SplitSlash(_, _, _)
SplitSlash(path, i, cur) ==
    IF i > Len(path) THEN <<cur>>
    ELSE IF path[i] = "/" THEN <<cur>> \o SplitSlash(path, i + 1, <<>>)
    ELSE SplitSlash(path, i + 1, Append(cur, path[i]))

\* the walk of the segments from the root: ".." pops, an empty segment stays;
\* a segment below an existing file does not resolve (ENOTDIR)
RECURSIVE Walk(_, _, _, _)
Walk(d, segs, i, stack) ==
    IF i > Len(segs) THEN stack
    ELSE IF stack \in d THEN <<<<"!">>>>
    ELSE IF segs[i] = <<>> THEN Walk(d, segs, i + 1, stack)
    ELSE IF segs[i] = <<"..">> THEN
        Walk(d, segs, i + 1, IF stack = <<>> THEN <<>> ELSE SubSeq(stack, 1, Len(stack) - 1))
    ELSE Walk(d, segs, i + 1, Append(stack, segs[i]))

\* canonical path of `path` (relative paths resolve against the root)
Resolve(d, path) == Walk(d, SplitSlash(path, 1, <<>>), 1, <<>>)

ExistsSync(d, path) == Resolve(d, path) \in d

\* fs.unlinkSync
UnlinkSync(d, path) == d \ {Resolve(d, path)}

\* cleanupTempFile(filePath)
CleanupTempFile(d, filePath) ==
    IF ExistsSync(d, filePath) /\ StartsWith(filePath, TEMP_DIR)
    THEN UnlinkSync(d, filePath)
    ELSE d

\* for (const tempFile of tempFiles) cleanupTempFile(tempFile)
RECURSIVE CleanupAll(_, _, _)
CleanupAll(d, tf, i) ==
    IF i > Len(tf) THEN d ELSE CleanupAll(CleanupTempFile(d, tf[i]), tf, i + 1)

\* a file written at `path`
WriteFile(d, path) == d \cup {Resolve(d, path)}

----------------------------------------------------------------------------
(* The jobs                                                                *)

\* one request and its background task; the tasks of different requests share
\* only the scratch directory, where every file name carries its own uuid
Jobs == {"j1"}

\* two requests whose background tasks run at the same time
ConcurrentJobs == {"j1", "j2"}

NoFile == [Status |-> "none"]
NoSegment == [text |-> <<>>]
NotRun == <<>>
NoPath == <<>>
Null == "null"

SfxOrig == "orig"
SfxAudio == "mp3"
SfxPreview == "480p"
SfxThumb == "thumb"
Suffixes == {SfxOrig, SfxAudio, SfxPreview, SfxThumb}

\* a temp file name without the random uuid
TempPath_FixedName(j, sfx) == Join(TEMP_DIR, <<"tmp", sfx>>)

\* join(TEMP_DIR, `${randomUUID()}<suffix>`): the uuid of the call made for job j
TempPath(j, sfx) == Join(TEMP_DIR, <<j, sfx>>)

\* the temp files created on behalf of job j that exist
JobFilesOnDisk(j) == {sfx \in Suffixes : ExistsSync(disk, TempPath(j, sfx))}

NoResult == [isVideo |-> FALSE, audioPath |-> NoPath, previewPath |-> NoPath, thumbnailPath |-> NoPath]
NoUrls == [audioUrl |-> "", previewUrl |-> Null, thumbnailUrl |-> Null]

\* db.dbTableRow.create(... Status: 'processing', ProcessingProgress: 10 ...)
NewFileRecord(isVideo) ==
    [FileType |-> IF isVideo THEN "video" ELSE "audio",
     Status |-> "processing", ProcessingProgress |-> 10, ProcessingError |-> "",
     AudioUrl |-> "", PreviewUrl |-> Null, ThumbnailUrl |-> Null]

\* updateFileProgress: the update, or nothing when it throws (caught and logged)
UpdateFileProgress(db, fileId, progress, status, ok) ==
    IF ok THEN [db EXCEPT ![fileId].ProcessingProgress = progress, ![fileId].Status = status]
    ELSE db

\* the milestones of the two routes
ProgressStart(r)   == IF r = "process" THEN 20 ELSE 15
ProgressConvert(r) == 25
ProgressUpload(r)  == IF r = "process" THEN 50 ELSE 60
ProgressAudio_Low(r) == IF r = "process" THEN 40 ELSE 45
ProgressAudio(r)   == IF r = "process" THEN 70 ELSE 75
ProgressFinal(r)   == 90

\* the final update of processInBackground
ReadyUpdate(db, fileId, u) ==
    [db EXCEPT ![fileId].PreviewUrl = u.previewUrl,
               ![fileId].ThumbnailUrl = u.thumbnailUrl,
               ![fileId].AudioUrl = u.audioUrl,
               ![fileId].Status = "ready",
               ![fileId].ProcessingProgress = 100]

\* the update of the catch block
ErrorUpdate(db, fileId, message) ==
    [db EXCEPT ![fileId].Status = "error", ![fileId].ProcessingError = message]

\* if (result.previewPath) push; if (result.thumbnailPath) push; push(result.audioPath)
PushResults(tf, res) ==
    LET a == IF res.previewPath # NoPath THEN Append(tf, res.previewPath) ELSE tf
        b == IF res.thumbnailPath # NoPath THEN Append(a, res.thumbnailPath) ELSE a
    IN Append(b, res.audioPath)

Outcomes == {"ok", "fail", "hang"}

\* the messages of the errors thrown by the steps
ErrDownload  == "Failed to download file"
ErrWrite     == "write error"
ErrMediaInfo == "Failed to get media info"
ErrAudio     == "Failed to extract audio"
ErrPreview   == "Failed to convert to 480p"
ErrThumbnail == "Failed to extract thumbnail"
ErrUpload    == "upload failed"
ErrUpdate    == "update failed"

JobInit ==
    /\ pc = [j \in ConcurrentJobs |-> "idle"]
    /\ req = [j \in ConcurrentJobs |-> [route |-> "process", isVideo |-> FALSE, hasVideo |-> FALSE]]
    /\ files = [j \in ConcurrentJobs |-> NoFile]
    /\ tempFiles = [j \in ConcurrentJobs |-> <<>>]
    /\ result = [j \in ConcurrentJobs |-> NoResult]
    /\ urls = [j \in ConcurrentJobs |-> NoUrls]
    /\ thrown = [j \in ConcurrentJobs |-> ""]
    /\ thumbFailed = [j \in ConcurrentJobs |-> FALSE]

\* the splitter is not running
SplitIdle ==
    /\ seg = NoSegment
    /\ out = NotRun

\* no text or export function is being called
FnIdle ==
    /\ input = [fn |-> "none"]
    /\ output = NotRun

\* no delete route is in use
DelIdle ==
    /\ tables = [Transcriptions |-> {}, TranscriptionSegments |-> {}, TranslatedSegments |-> {}, Files |-> {}]
    /\ objects = {}
    /\ del = [pc |-> "none"]

\* the chunking loop, the rate limiter and the transcription and translation
\* routes are not in use
SvcIdle ==
    /\ loop = [pc |-> "none"]
    /\ rateLimitStore = <<>>
    /\ now = 0
    /\ history = <<>>
    /\ transcribe = [pc |-> "none"]
    /\ translate = <<>>

Init ==
    /\ JobInit
    /\ disk = {}
    /\ SplitIdle
    /\ FnIdle
    /\ DelIdle
    /\ SvcIdle

\* the try block throws: control moves to the catch block
Throw(j, message) ==
    /\ thrown' = [thrown EXCEPT ![j] = message]
    /\ pc' = [pc EXCEPT ![j] = "catch"]

Goto(j, label) == pc' = [pc EXCEPT ![j] = label]

\* POST /api/upload/process: temp file, probe, upload of the original, record, spawn
PostProcess(j) ==
    /\ pc[j] = "idle"
    /\ \E isVideo \in BOOLEAN, hasVideo \in BOOLEAN, ok \in BOOLEAN :
        /\ req' = [req EXCEPT ![j] = [route |-> "process", isVideo |-> isVideo, hasVideo |-> hasVideo]]
        /\ IF ok
           THEN /\ disk' = WriteFile(disk, TempPath(j, SfxOrig))
                /\ tempFiles' = [tempFiles EXCEPT ![j] = <<TempPath(j, SfxOrig)>>]
                /\ files' = [files EXCEPT ![j] = NewFileRecord(isVideo)]
                /\ Goto(j, "p_start")
           ELSE \* a step threw: the catch block cleans tempFiles, no record, no job
                /\ disk' = CleanupAll(WriteFile(disk, TempPath(j, SfxOrig)), <<TempPath(j, SfxOrig)>>, 1)
                /\ UNCHANGED <<tempFiles, files>>
                /\ Goto(j, "rejected")
    /\ UNCHANGED <<result, urls, thrown, thumbFailed, splitVars, fnVars, delVars, svcVars>>

\* POST /api/upload/register: record, spawn
PostRegister(j) ==
    /\ pc[j] = "idle"
    /\ \E isVideo \in BOOLEAN, hasVideo \in BOOLEAN, ok \in BOOLEAN :
        /\ req' = [req EXCEPT ![j] = [route |-> "register", isVideo |-> isVideo, hasVideo |-> hasVideo]]
        /\ IF ok
           THEN /\ files' = [files EXCEPT ![j] = NewFileRecord(isVideo)]
                /\ Goto(j, "p_start")
           ELSE /\ UNCHANGED files
                /\ Goto(j, "rejected")
    /\ UNCHANGED <<tempFiles, disk, result, urls, thrown, thumbFailed, splitVars, fnVars, delVars, svcVars>>

\* await updateFileProgress(db, fileId, <milestone>, 'processing')
ProgressStep(j, at, progress, next) ==
    /\ pc[j] = at
    /\ \E ok \in BOOLEAN :
        files' = UpdateFileProgress(files, j, progress, "processing", ok)
    /\ Goto(j, next)

StartProgress(j) ==
    /\ ProgressStep(j, "p_start", ProgressStart(req[j].route),
                    IF req[j].route = "process" THEN "is_video" ELSE "download")
    /\ UNCHANGED <<req, tempFiles, result, urls, thrown, thumbFailed, disk, splitVars, fnVars, delVars, svcVars>>

\* register: fetch(sourceUrl), response.ok, arrayBuffer
Download(j) ==
    /\ pc[j] = "download"
    /\ \E ok \in BOOLEAN :
        IF ok THEN Goto(j, "save_temp") /\ UNCHANGED thrown
        ELSE Throw(j, ErrDownload)
    /\ UNCHANGED <<req, files, tempFiles, result, urls, thumbFailed, disk, splitVars, fnVars, delVars, svcVars>>

\* register: saveToTempFile(fileBuffer, extension); tempFiles.push
\* (on a write error the promise rejects and the file opened by createWriteStream
\*  is left as it is)
SaveToTempFile(j) ==
    /\ pc[j] = "save_temp"
    /\ \/ /\ disk' = WriteFile(disk, TempPath(j, SfxOrig))
          /\ tempFiles' = [tempFiles EXCEPT ![j] = Append(@, TempPath(j, SfxOrig))]
          /\ Goto(j, "probe")
          /\ UNCHANGED thrown
       \/ /\ \E created \in BOOLEAN :
               disk' = IF created THEN WriteFile(disk, TempPath(j, SfxOrig)) ELSE disk
          /\ UNCHANGED tempFiles
          /\ Throw(j, ErrWrite)
    /\ UNCHANGED <<req, files, result, urls, thumbFailed, splitVars, fnVars, delVars, svcVars>>

\* register: getMediaInfo(tempOriginalPath) (execFile without a timeout)
Probe(j) ==
    /\ pc[j] = "probe"
    /\ \E o \in Outcomes :
        CASE o = "ok" -> Goto(j, "p_convert") /\ UNCHANGED thrown
          [] o = "fail" -> Throw(j, ErrMediaInfo)
          [] o = "hang" -> Goto(j, "hung") /\ UNCHANGED thrown
    /\ UNCHANGED <<req, files, tempFiles, result, urls, thumbFailed, disk, splitVars, fnVars, delVars, svcVars>>

ConvertProgress(j) ==
    /\ ProgressStep(j, "p_convert", ProgressConvert(req[j].route), "is_video")
    /\ UNCHANGED <<req, tempFiles, result, urls, thrown, thumbFailed, disk, splitVars, fnVars, delVars, svcVars>>

\* isVideoFile whose catch block answers true
IsVideoFile_CatchTrue(j) ==
    /\ pc[j] = "is_video"
    /\ \E o \in Outcomes :
        CASE o = "ok" -> /\ result' = [result EXCEPT ![j].isVideo = req[j].hasVideo]
                         /\ Goto(j, "audio")
          [] o = "fail" -> /\ result' = [result EXCEPT ![j].isVideo = TRUE]
                           /\ Goto(j, "audio")
          [] o = "hang" -> /\ UNCHANGED result
                           /\ Goto(j, "hung")
    /\ UNCHANGED <<req, files, tempFiles, urls, thrown, thumbFailed, disk, splitVars, fnVars, delVars, svcVars>>

\* processMediaFile: isVideoFile(inputPath); a failing ffprobe is caught and gives false
IsVideoFile(j) ==
    /\ pc[j] = "is_video"
    /\ \E o \in Outcomes :
        CASE o = "ok" -> /\ result' = [result EXCEPT ![j].isVideo = req[j].hasVideo]
                         /\ Goto(j, "audio")
          [] o = "fail" -> /\ result' = [result EXCEPT ![j].isVideo = FALSE]
                           /\ Goto(j, "audio")
          [] o = "hang" -> /\ UNCHANGED result
                           /\ Goto(j, "hung")
    /\ UNCHANGED <<req, files, tempFiles, urls, thrown, thumbFailed, disk, splitVars, fnVars, delVars, svcVars>>

\* one of extractAudioForTranscription / convertTo480p / extractThumbnail writing
\* outputPath: ffmpeg, statSync and (audio, preview) getMediaInfo(outputPath) inside
\* try; the catch block unlinks outputPath and throws `message`. A call that never
\* returns leaves whatever ffmpeg has written so far.
Transcode(j, sfx, o, written) ==
    CASE o = "ok" -> disk' = WriteFile(disk, TempPath(j, sfx))
      [] o = "fail" ->
            disk' = LET d == IF written THEN WriteFile(disk, TempPath(j, sfx)) ELSE disk
                    IN IF ExistsSync(d, TempPath(j, sfx)) THEN UnlinkSync(d, TempPath(j, sfx)) ELSE d
      [] o = "hang" ->
            disk' = IF written THEN WriteFile(disk, TempPath(j, sfx)) ELSE disk

\* processMediaFile: extractAudioForTranscription(inputPath)
ExtractAudio(j) ==
    /\ pc[j] = "audio"
    /\ \E o \in Outcomes, written \in BOOLEAN :
        /\ Transcode(j, SfxAudio, o, written)
        /\ CASE o = "ok" -> /\ result' = [result EXCEPT ![j].audioPath = TempPath(j, SfxAudio)]
                            /\ Goto(j, IF result[j].isVideo THEN "preview" ELSE "p_upload")
                            /\ UNCHANGED thrown
             [] o = "fail" -> /\ Throw(j, ErrAudio)
                              /\ UNCHANGED result
             [] o = "hang" -> /\ Goto(j, "hung")
                              /\ UNCHANGED <<result, thrown>>
    /\ UNCHANGED <<req, files, tempFiles, urls, thumbFailed, splitVars, fnVars, delVars, svcVars>>

\* convertTo480p called without await: processMediaFile goes on at once
ConvertTo480p_NotAwaited(j) ==
    /\ pc[j] = "preview"
    /\ Goto(j, "thumb")
    /\ UNCHANGED <<req, files, tempFiles, result, urls, thrown, thumbFailed, disk, splitVars, fnVars, delVars, svcVars>>

\* processMediaFile, video branch: convertTo480p(inputPath)
ConvertTo480p(j) ==
    /\ pc[j] = "preview"
    /\ \E o \in Outcomes, written \in BOOLEAN :
        /\ Transcode(j, SfxPreview, o, written)
        /\ CASE o = "ok" -> /\ result' = [result EXCEPT ![j].previewPath = TempPath(j, SfxPreview)]
                            /\ Goto(j, "thumb")
                            /\ UNCHANGED thrown
             [] o = "fail" -> /\ Throw(j, ErrPreview)
                              /\ UNCHANGED result
             [] o = "hang" -> /\ Goto(j, "hung")
                              /\ UNCHANGED <<result, thrown>>
    /\ UNCHANGED <<req, files, tempFiles, urls, thumbFailed, splitVars, fnVars, delVars, svcVars>>

\* extractThumbnail without the try / catch around it
ExtractThumbnail_Fatal(j) ==
    /\ pc[j] = "thumb"
    /\ \E o \in Outcomes, written \in BOOLEAN :
        /\ Transcode(j, SfxThumb, o, written)
        /\ CASE o = "ok" -> /\ result' = [result EXCEPT ![j].thumbnailPath = TempPath(j, SfxThumb)]
                            /\ Goto(j, "p_upload")
                            /\ UNCHANGED <<thumbFailed, thrown>>
             [] o = "fail" -> /\ thumbFailed' = [thumbFailed EXCEPT ![j] = TRUE]
                              /\ Throw(j, ErrThumbnail)
                              /\ UNCHANGED result
             [] o = "hang" -> /\ Goto(j, "hung")
                              /\ UNCHANGED <<result, thumbFailed, thrown>>
    /\ UNCHANGED <<req, files, tempFiles, urls, splitVars, fnVars, delVars, svcVars>>

\* processMediaFile, video branch: try { extractThumbnail(inputPath, 25) } catch { log }
ExtractThumbnail(j) ==
    /\ pc[j] = "thumb"
    /\ \E o \in Outcomes, written \in BOOLEAN :
        /\ Transcode(j, SfxThumb, o, written)
        /\ CASE o = "ok" -> /\ result' = [result EXCEPT ![j].thumbnailPath = TempPath(j, SfxThumb)]
                            /\ Goto(j, "p_upload")
                            /\ UNCHANGED thumbFailed
             [] o = "fail" -> /\ thumbFailed' = [thumbFailed EXCEPT ![j] = TRUE]
                              /\ Goto(j, "p_upload")
                              /\ UNCHANGED result
             [] o = "hang" -> /\ Goto(j, "hung")
                              /\ UNCHANGED <<result, thumbFailed>>
    /\ UNCHANGED <<req, files, tempFiles, urls, thrown, splitVars, fnVars, delVars, svcVars>>

\* the pushes onto tempFiles after processMediaFile returned, then
\* await updateFileProgress(50 / 60)
UploadProgress(j) ==
    /\ ProgressStep(j, "p_upload", ProgressUpload(req[j].route), "up_audio")
    /\ tempFiles' = [tempFiles EXCEPT ![j] = PushResults(@, result[j])]
    /\ UNCHANGED <<req, result, urls, thrown, thumbFailed, disk, splitVars, fnVars, delVars, svcVars>>

\* s3.uploadFromPath / readFileToBuffer + s3.upload of the audio
UploadAudio(j) ==
    /\ pc[j] = "up_audio"
    /\ \E ok \in BOOLEAN :
        IF ok THEN /\ urls' = [urls EXCEPT ![j].audioUrl = "audio-url"]
                   /\ Goto(j, "p_audio")
                   /\ UNCHANGED thrown
        ELSE /\ Throw(j, ErrUpload)
             /\ UNCHANGED urls
    /\ UNCHANGED <<req, files, tempFiles, result, thumbFailed, disk, splitVars, fnVars, delVars, svcVars>>

AudioProgress(j) ==
    /\ ProgressStep(j, "p_audio", ProgressAudio(req[j].route), "up_preview")
    /\ UNCHANGED <<req, tempFiles, result, urls, thrown, thumbFailed, disk, splitVars, fnVars, delVars, svcVars>>

\* the preview uploaded whenever processMediaFile produced one: if (result.previewPath)
UploadPreview_AnyPreview(j) ==
    /\ pc[j] = "up_preview"
    /\ IF result[j].previewPath # NoPath
       THEN \E ok \in BOOLEAN :
              IF ok THEN /\ urls' = [urls EXCEPT ![j].previewUrl = "preview-url"]
                         /\ Goto(j, "up_thumb")
                         /\ UNCHANGED thrown
              ELSE /\ Throw(j, ErrUpload)
                   /\ UNCHANGED urls
       ELSE /\ Goto(j, "up_thumb")
            /\ UNCHANGED <<urls, thrown>>
    /\ UNCHANGED <<req, files, tempFiles, result, thumbFailed, disk, splitVars, fnVars, delVars, svcVars>>

\* if (isVideo && result.previewPath) upload of the preview
UploadPreview(j) ==
    /\ pc[j] = "up_preview"
    /\ IF req[j].isVideo /\ result[j].previewPath # NoPath
       THEN \E ok \in BOOLEAN :
              IF ok THEN /\ urls' = [urls EXCEPT ![j].previewUrl = "preview-url"]
                         /\ Goto(j, "up_thumb")
                         /\ UNCHANGED thrown
              ELSE /\ Throw(j, ErrUpload)
                   /\ UNCHANGED urls
       ELSE /\ Goto(j, "up_thumb")
            /\ UNCHANGED <<urls, thrown>>
    /\ UNCHANGED <<req, files, tempFiles, result, thumbFailed, disk, splitVars, fnVars, delVars, svcVars>>

\* if (isVideo && result.thumbnailPath) upload of the thumbnail
UploadThumbnail(j) ==
    /\ pc[j] = "up_thumb"
    /\ IF req[j].isVideo /\ result[j].thumbnailPath # NoPath
       THEN \E ok \in BOOLEAN :
              IF ok THEN /\ urls' = [urls EXCEPT ![j].thumbnailUrl = "thumbnail-url"]
                         /\ Goto(j, "p_final")
                         /\ UNCHANGED thrown
              ELSE /\ Throw(j, ErrUpload)
                   /\ UNCHANGED urls
       ELSE /\ Goto(j, "p_final")
            /\ UNCHANGED <<urls, thrown>>
    /\ UNCHANGED <<req, files, tempFiles, result, thumbFailed, disk, splitVars, fnVars, delVars, svcVars>>

FinalProgress(j) ==
    /\ ProgressStep(j, "p_final", ProgressFinal(req[j].route), "finalize")
    /\ UNCHANGED <<req, tempFiles, result, urls, thrown, thumbFailed, disk, splitVars, fnVars, delVars, svcVars>>

\* the final update applied although the call throws: the catch block writes after it
Finalize_AppliedThenThrows(j) ==
    /\ pc[j] = "finalize"
    /\ \E ok \in BOOLEAN :
        /\ files' = ReadyUpdate(files, j, urls[j])
        /\ IF ok THEN Goto(j, "finally") /\ UNCHANGED thrown
           ELSE Throw(j, ErrUpdate)
    /\ UNCHANGED <<req, tempFiles, result, urls, thumbFailed, disk, splitVars, fnVars, delVars, svcVars>>

\* await db.dbTableRow.update(... Status: 'ready', ProcessingProgress: 100 ...)
Finalize(j) ==
    /\ pc[j] = "finalize"
    /\ \E ok \in BOOLEAN :
        IF ok THEN /\ files' = ReadyUpdate(files, j, urls[j])
                   /\ Goto(j, "finally")
                   /\ UNCHANGED thrown
        ELSE /\ Throw(j, ErrUpdate)
             /\ UNCHANGED files
    /\ UNCHANGED <<req, tempFiles, result, urls, thumbFailed, disk, splitVars, fnVars, delVars, svcVars>>

\* catch (error): try { update Status 'error', ProcessingError } catch { log }
Catch(j) ==
    /\ pc[j] = "catch"
    /\ \E ok \in BOOLEAN :
        files' = IF ok THEN ErrorUpdate(files, j, thrown[j]) ELSE files
    /\ Goto(j, "finally")
    /\ UNCHANGED <<req, tempFiles, result, urls, thrown, thumbFailed, disk, splitVars, fnVars, delVars, svcVars>>

\* finally: for (const tempFile of tempFiles) cleanupTempFile(tempFile)
Finally(j) ==
    /\ pc[j] = "finally"
    /\ disk' = CleanupAll(disk, tempFiles[j], 1)
    /\ Goto(j, "done")
    /\ UNCHANGED <<req, files, tempFiles, result, urls, thrown, thumbFailed, splitVars, fnVars, delVars, svcVars>>

JobStep(j) ==
    \/ StartProgress(j)
    \/ Download(j)
    \/ SaveToTempFile(j)
    \/ Probe(j)
    \/ ConvertProgress(j)
    \/ IsVideoFile(j)
    \/ ExtractAudio(j)
    \/ ConvertTo480p(j)
    \/ ExtractThumbnail(j)
    \/ UploadProgress(j)
    \/ UploadAudio(j)
    \/ AudioProgress(j)
    \/ UploadPreview(j)
    \/ UploadThumbnail(j)
    \/ FinalProgress(j)
    \/ Finalize(j)
    \/ Catch(j)
    \/ Finally(j)

Next ==
    \E j \in Jobs :
        \/ PostProcess(j)
        \/ PostRegister(j)
        \/ JobStep(j)

Spec == Init /\ [][Next]_vars

\* the requests of ConcurrentJobs: the event loop interleaves their handlers and
\* background tasks at every await. Here the database accepts every progress
\* update (a rejected one writes nothing, see UpdateFileProgress).
NextConcurrent ==
    \E j \in ConcurrentJobs :
        /\ \/ PostProcess(j)
           \/ PostRegister(j)
           \/ JobStep(j)
        /\ pc[j] \in {"p_start", "p_convert", "p_upload", "p_audio", "p_final"} =>
               files'[j] # files[j]

SpecConcurrent == Init /\ [][NextConcurrent]_vars

\* the event loop resumes every task whose awaited call has returned
FairSpec == Spec /\ \A j \in Jobs : WF_vars(JobStep(j))

----------------------------------------------------------------------------
(* cleanupTempFile called with any path, on a file system that holds files *)
(* inside and outside the scratch directory                                *)

MaxPathLen == 6

PathTokens == {"/", "s", "x", ".."}

ArgPaths == UNION {[1..n -> PathTokens] : n \in 0..MaxPathLen}

\* a canonical path below the scratch directory
InScratch(c) ==
    LET t == Resolve({}, TEMP_DIR)
    IN Len(c) > Len(t) /\ SubSeq(c, 1, Len(t)) = t

\* /s/x /s/s /s/xs /s/ss (in the scratch directory),
\* /sx /sss /ss/x /x /xx (outside it)
FsInit ==
    { <<<<"s">>, <<"x">>>>, <<<<"s">>, <<"s">>>>, <<<<"s">>, <<"x", "s">>>>,
      <<<<"s">>, <<"s", "s">>>>,
      <<<<"s", "x">>>>, <<<<"s", "s", "s">>>>, <<<<"s", "s">>, <<"x">>>>,
      <<<<"x">>>>, <<<<"x", "x">>>> }

InitCleanup ==
    /\ JobInit
    /\ disk = FsInit
    /\ SplitIdle
    /\ FnIdle
    /\ DelIdle
    /\ SvcIdle

CleanupCall ==
    /\ \E p \in ArgPaths : disk' = CleanupTempFile(disk, p)
    /\ UNCHANGED <<jobVars, splitVars, fnVars, delVars, svcVars>>

NextCleanup == CleanupCall

SpecCleanup == InitCleanup /\ [][NextCleanup]_vars

\* C7: cleanupTempFile never deletes a file outside the scratch directory,
\* whatever path it is given (a sibling whose name begins with the scratch
\* directory's name, a path leaving it through '..').
C7_NeverDeletesOutside ==
    \A f \in FsInit : ~InScratch(f) => f \in disk

----------------------------------------------------------------------------
(* The segment splitter (lib/utils/segments). A text is a sequence of      *)
(* characters; indices are 0-based as in the source. Times are exact       *)
(* rationals: the times of the segments returned for one input are         *)
(* numerators over a common denominator `den`.                             *)

IsWhitespace(c) == c \in {" ", "\n"}

\* String.prototype.trim
RECURSIVE TrimStart(_)
TrimStart(t) ==
    IF Len(t) > 0 /\ IsWhitespace(t[1]) THEN TrimStart(Tail(t)) ELSE t

RECURSIVE TrimEnd(_)
TrimEnd(t) ==
    IF Len(t) > 0 /\ IsWhitespace(t[Len(t)]) THEN TrimEnd(SubSeq(t, 1, Len(t) - 1)) ELSE t

Trim(t) == TrimEnd(TrimStart(t))

Min(a, b) == IF a < b THEN a ELSE b
Max(a, b) == IF a > b THEN a ELSE b
Abs(a) == IF a < 0 THEN 0 - a ELSE a

\* text.substring(from, to), text.substring(from), text[i]
\* (an index below 0 counts as 0)
Substring(t, from, to) == SubSeq(t, Max(0, Min(from, Len(t))) + 1, Max(0, Min(to, Len(t))))
\* text.substring(from + 1): the character at the split index is dropped
SubstringFrom_SkipOne(t, from) == SubSeq(t, Min(from + 1, Len(t)) + 1, Len(t))
SubstringFrom(t, from) == SubSeq(t, Max(0, Min(from, Len(t))) + 1, Len(t))
CharAt(t, i) == t[i + 1]

\* text.lastIndexOf(pattern), -1 when absent
LastIndexOf(t, pat) ==
    LET hits == {i \in 0..(Len(t) - Len(pat)) : SubSeq(t, i + 1, i + Len(pat)) = pat}
    IN IF hits = {} THEN 0 - 1 ELSE CHOOSE i \in hits : \A k \in hits : k <= i

\* the en dash character (U+2013)
EnDash == "en-dash"

SentenceEnds == << <<".", " ">>, <<"!", " ">>, <<"?", " ">>,
                   <<".", "\n">>, <<"!", "\n">>, <<"?", "\n">> >>
ClauseBreaks == << <<",", " ">>, <<";", " ">>, <<":", " ">>,
                   <<" ", "-", " ">>, <<" ", EnDash, " ">> >>

\* for (const p of patterns) { index = lastIndexOf(p); if (index > maxChars * num/10) return index + p.length - 1 }
\* -1 when no pattern qualifies
RECURSIVE FirstQualifying(_, _, _, _, _)
FirstQualifying(range, patterns, k, maxChars, num) ==
    IF k > Len(patterns) THEN 0 - 1
    ELSE LET index == LastIndexOf(range, patterns[k])
         IN IF 10 * index > num * maxChars
            THEN index + Len(patterns[k]) - 1
            ELSE FirstQualifying(range, patterns, k + 1, maxChars, num)

\* findBestSplitPoint(text, maxChars)
FindBestSplitPoint(text, maxChars) ==
    LET searchRange == Substring(text, 0, maxChars)
        sentence == FirstQualifying(searchRange, SentenceEnds, 1, maxChars, 3)
        clause == FirstQualifying(searchRange, ClauseBreaks, 1, maxChars, 4)
        lastSpace == LastIndexOf(searchRange, <<" ">>)
    IN IF sentence >= 0 THEN sentence
       ELSE IF clause >= 0 THEN clause
       ELSE IF 2 * lastSpace > maxChars THEN lastSpace
       ELSE IF lastSpace > 0 THEN lastSpace
       ELSE 0 - 1

IsPunctuation(c) == c \in {",", ";", ":", ".", "!", "?"}

\* findBalancedSplitPoint(text, maxChars)
FindBalancedSplitPoint(text, maxChars) ==
    LET targetSplit == Len(text) \div 2
        searchRange == Min(20, Len(text) \div 4)
        cands == {i \in Max(0, targetSplit - searchRange)..Min(Len(text) - 1, targetSplit + searchRange) :
                    CharAt(text, i) = " "}
        Adjusted(i) == IF i > 0 /\ IsPunctuation(CharAt(text, i - 1))
                       THEN Abs(i - targetSplit) - 5 ELSE Abs(i - targetSplit)
        \* the loop keeps the first index of the smallest adjusted distance
        bestSplit == IF cands = {} THEN 0 - 1
                     ELSE CHOOSE i \in cands :
                            \A k \in cands : Adjusted(i) < Adjusted(k) \/ (Adjusted(i) = Adjusted(k) /\ i <= k)
    IN IF Len(text) <= maxChars * 2 /\ bestSplit > 0
       THEN bestSplit
       ELSE FindBestSplitPoint(text, maxChars)

\* the while loop of splitTextIntoChunks on the trimmed text
RECURSIVE ChunkLoop(_, _)
ChunkLoop(remaining, maxChars) ==
    IF Len(remaining) > maxChars
    THEN LET found == FindBalancedSplitPoint(remaining, maxChars)
             splitIndex == IF found <= 0 THEN maxChars ELSE found
         IN <<Trim(Substring(remaining, 0, splitIndex))>>
            \o ChunkLoop(Trim(SubstringFrom(remaining, splitIndex)), maxChars)
    ELSE IF Len(remaining) > 0 THEN <<remaining>> ELSE <<>>

\* splitTextIntoChunks(text, maxChars)
SplitTextIntoChunks(text, maxChars) == ChunkLoop(Trim(text), maxChars)

\* the time unit of the model is 1 / TimeUnitsPerSecond seconds
TimeUnitsPerSecond == 2

\* DEFAULT_OPTIONS.minSegmentDuration (seconds), the value both callers pass
MinSegmentDurationSeconds == 1

\* chunk.length / charsPerSecond without the Math.max
ChunkDuration_NoMin(chunk, duration, den, minSegmentDuration) ==
    IF duration > 0 THEN Len(chunk) * duration ELSE Len(chunk) * TimeUnitsPerSecond

\* Math.max(opts.minSegmentDuration, chunk.length / charsPerSecond) in units of 1/den:
\* charsPerSecond = text.length / duration (den = text.length), or 15 a second (den = 15)
ChunkDuration(chunk, duration, den, minSegmentDuration) ==
    Max(minSegmentDuration * den,
        IF duration > 0 THEN Len(chunk) * duration ELSE Len(chunk) * TimeUnitsPerSecond)

\* the end of every chunk, the last one too, taken from its duration
ChunkEnd_NoLastRule(isLast, currentTime, chunkDuration, segEnd) ==
    Min(currentTime + chunkDuration, segEnd)

\* i === chunks.length - 1 ? segment.endTime : Math.min(currentTime + chunkDuration, segment.endTime)
ChunkEnd(isLast, currentTime, chunkDuration, segEnd) ==
    IF isLast THEN segEnd ELSE Min(currentTime + chunkDuration, segEnd)

\* the timing loop of splitSegment, from chunk i (1-based) at currentTime
RECURSIVE TimingLoop(_, _, _, _, _, _)
TimingLoop(segment, chunks, i, currentTime, den, minSegmentDuration) ==
    IF i > Len(chunks) THEN <<>>
    ELSE LET chunkDuration == ChunkDuration(chunks[i], segment.endTime - segment.startTime,
                                            den, minSegmentDuration)
             endTime == ChunkEnd(i = Len(chunks), currentTime, chunkDuration, segment.endTime * den)
         IN << [id |-> segment.id * 1000 + (i - 1),
                startTime |-> currentTime,
                endTime |-> endTime,
                den |-> den,
                text |-> chunks[i],
                confidence |-> segment.confidence] >>
            \o TimingLoop(segment, chunks, i + 1, endTime, den, minSegmentDuration)

\* splitSegment(segment, options)
SplitSegment(segment, opts) ==
    LET maxChars == opts.maxCharsPerLine * opts.maxLines
        text == Trim(segment.text)
        duration == segment.endTime - segment.startTime
        den == IF duration > 0 THEN Len(text) ELSE 15
    IN IF Len(text) <= maxChars
       THEN << [id |-> segment.id, startTime |-> segment.startTime, endTime |-> segment.endTime,
                den |-> 1, text |-> text, confidence |-> segment.confidence] >>
       ELSE TimingLoop(segment, SplitTextIntoChunks(text, maxChars), 1,
                       segment.startTime * den, den, opts.minSegmentDuration)

MaxTextLen == 6
MaxCharsPerLine == 3
MaxLines == 2
MaxStartTime == 1
MaxDuration == 5

Alphabet == {"a", " ", "."}
Texts == UNION {[1..n -> Alphabet] : n \in 0..MaxTextLen}

\* the segment and options of one call
SplitInputs ==
    [text : Texts, id : {1}, confidence : {1},
     startTime : 0..MaxStartTime, duration : 0..MaxDuration,
     maxCharsPerLine : 1..MaxCharsPerLine, maxLines : 1..MaxLines]

MinSegmentDuration == MinSegmentDurationSeconds * TimeUnitsPerSecond

Segment(in) ==
    [id |-> in.id, startTime |-> in.startTime, endTime |-> in.startTime + in.duration,
     text |-> in.text, confidence |-> in.confidence]

Options(in) ==
    [maxCharsPerLine |-> in.maxCharsPerLine, maxLines |-> in.maxLines,
     minSegmentDuration |-> MinSegmentDuration]

InitSplit ==
    /\ JobInit
    /\ disk = {}
    /\ seg \in SplitInputs
    /\ out = NotRun
    /\ FnIdle
    /\ DelIdle
    /\ SvcIdle

\* one call of splitSegment
CallSplitSegment ==
    /\ out = NotRun
    /\ out' = SplitSegment(Segment(seg), Options(seg))
    /\ UNCHANGED <<jobVars, disk, seg, fnVars, delVars, svcVars>>

NextSplit == CallSplitSegment

SpecSplit == InitSplit /\ [][NextSplit]_vars

\* splitSegment has returned more than one segment
WasSplit == out # NotRun /\ Len(out) > 1

\* C8: every segment returned by splitSegment has text of length
\* <= maxCharsPerLine x maxLines.
C8_ChunksWithinLimit ==
    out # NotRun =>
        \A i \in 1..Len(out) : Len(out[i].text) <= seg.maxCharsPerLine * seg.maxLines

\* C9: the chunks of a split segment are contiguous: the first starts at the
\* segment's startTime, the last ends at its endTime, each starts where the
\* previous one ended.
C9_Contiguous ==
    WasSplit =>
        /\ out[1].startTime = Segment(seg).startTime * out[1].den
        /\ out[Len(out)].endTime = Segment(seg).endTime * out[Len(out)].den
        /\ \A i \in 1..(Len(out) - 1) :
              /\ out[i + 1].den = out[i].den
              /\ out[i + 1].startTime = out[i].endTime

\* a segment with a start after 0 split into chunks, the first ending before the
\* segment's end
C9_Witness ==
    /\ WasSplit
    /\ seg.startTime > 0
    /\ out[1].endTime < Segment(seg).endTime * out[1].den

\* C10: for endTime > startTime every returned segment has endTime > startTime
\* and lies within [segment.startTime, segment.endTime].
C10_PositiveSpans ==
    (out # NotRun /\ seg.duration > 0) =>
        \A i \in 1..Len(out) :
            /\ out[i].endTime > out[i].startTime
            /\ out[i].startTime >= Segment(seg).startTime * out[i].den
            /\ out[i].endTime <= Segment(seg).endTime * out[i].den

StripWhitespace(t) == SelectSeq(t, LAMBDA c : ~IsWhitespace(c))

\* the texts of the segments s[i..], stripped of whitespace, one after the other
RECURSIVE StrippedTexts(_, _)
StrippedTexts(s, i) ==
    IF i > Len(s) THEN <<>> ELSE StripWhitespace(s[i].text) \o StrippedTexts(s, i + 1)

\* C12: the chunk texts of a split segment, in order and stripped of whitespace,
\* concatenate to the input text stripped of whitespace, and no chunk is empty.
C12_TextPreserved ==
    WasSplit =>
        /\ StrippedTexts(out, 1) = StripWhitespace(seg.text)
        /\ \A i \in 1..Len(out) : Len(out[i].text) > 0

\* a split at a space (the space is dropped) into three chunks or more
C12_Witness ==
    /\ WasSplit
    /\ Len(out) >= 3
    /\ \E i \in 1..Len(seg.text) : seg.text[i] = " "
    /\ \E i \in 1..Len(out) : Len(out[i].text) < seg.maxCharsPerLine * seg.maxLines

\* C13: a segment whose text length is <= maxCharsPerLine x maxLines comes back
\* as exactly one segment with the same id, startTime, endTime, text and
\* confidence.
C13_ShortUnchanged ==
    (out # NotRun /\ Len(seg.text) <= seg.maxCharsPerLine * seg.maxLines) =>
        /\ Len(out) = 1
        /\ out[1].id = seg.id
        /\ out[1].startTime = Segment(seg).startTime * out[1].den
        /\ out[1].endTime = Segment(seg).endTime * out[1].den
        /\ out[1].text = seg.text
        /\ out[1].confidence = seg.confidence

----------------------------------------------------------------------------
(* The line balancer (lib/utils/segments): formatSubtitleText and          *)
(* balanceSegmentText on texts made of words                               *)

\* text.replace(/\n/g, ' ')
ReplaceNewlines(t) == [i \in 1..Len(t) |-> IF t[i] = "\n" THEN " " ELSE t[i]]

\* text.replace(/\s+/g, ' ')
RECURSIVE CollapseWhitespace(_, _)
CollapseWhitespace(t, i) ==
    IF i > Len(t) THEN <<>>
    ELSE IF IsWhitespace(t[i])
         THEN (IF i > 1 /\ IsWhitespace(t[i - 1]) THEN <<>> ELSE <<" ">>) \o CollapseWhitespace(t, i + 1)
         ELSE <<t[i]>> \o CollapseWhitespace(t, i + 1)

\* no character counts as punctuation
IsBreakPunctuation_None(c) == FALSE

\* /[,;:.!?–-]/.test(c)
IsBreakPunctuation(c) == c \in {",", ";", ":", ".", "!", "?", EnDash, "-"}

\* every candidate accepted, whatever the lengths of the two lines
LinesFit_Always(line1Len, line2Len, maxCharsPerLine) == TRUE

\* not (line1Len > maxCharsPerLine || line2Len > maxCharsPerLine)
LinesFit(line1Len, line2Len, maxCharsPerLine) ==
    ~(line1Len > maxCharsPerLine \/ line2Len > maxCharsPerLine)

\* formatSubtitleText(text, maxCharsPerLine)
FormatSubtitleText(text, maxCharsPerLine) ==
    LET trimmed == Trim(text)
        targetSplit == Len(trimmed) \div 2
        searchRange == Min(25, Len(trimmed) \div 3)
        cands == {i \in Max(10, targetSplit - searchRange)..Min(Len(trimmed) - 10, targetSplit + searchRange) :
                    /\ CharAt(trimmed, i) = " "
                    /\ LinesFit(i, Len(trimmed) - i - 1, maxCharsPerLine)}
        Score(i) == Abs(i - (Len(trimmed) - i - 1))
                    + (IF IsBreakPunctuation(CharAt(trimmed, i - 1)) THEN 0 - 10 ELSE 0)
        \* the loop keeps the first index of the lowest score
        bestSplit == IF cands = {} THEN 0 - 1
                     ELSE CHOOSE i \in cands :
                            \A k \in cands : Score(i) < Score(k) \/ (Score(i) = Score(k) /\ i <= k)
    IN IF Len(trimmed) <= maxCharsPerLine THEN trimmed
       ELSE IF bestSplit > 0
            THEN Trim(Substring(trimmed, 0, bestSplit)) \o <<"\n">> \o Trim(SubstringFrom(trimmed, bestSplit + 1))
            ELSE trimmed

\* the text handed to formatSubtitleText as it is
BalanceSegmentText_NoClean(text, maxCharsPerLine) ==
    FormatSubtitleText(text, maxCharsPerLine)

\* balanceSegmentText(text, maxCharsPerLine)
BalanceSegmentText(text, maxCharsPerLine) ==
    LET cleaned == Trim(CollapseWhitespace(ReplaceNewlines(text), 1))
    IN FormatSubtitleText(cleaned, maxCharsPerLine)

MaxWords == 3
WordLens == {4, 9, 10}
Separators == {<<" ">>, <<"\n">>, <<" ", "\n">>}
BalanceLimits == {10, 15, 22}

\* a word of n letters, with a comma after it or not
Word(n, comma) == [i \in 1..n |-> "a"] \o (IF comma THEN <<",">> ELSE <<>>)
Words == {Word(n, c) : n \in WordLens, c \in BOOLEAN}

\* w[1] sep[1] w[2] ... w[n]
RECURSIVE JoinWords(_, _, _)
JoinWords(w, sep, i) ==
    IF i = Len(w) THEN w[i] ELSE w[i] \o sep[i] \o JoinWords(w, sep, i + 1)

BalanceTexts ==
    UNION {{JoinWords(w, sep, 1) : w \in [1..n -> Words], sep \in [1..(n - 1) -> Separators]} :
           n \in 1..MaxWords}

BalanceInputs ==
    {[fn |-> "balanceSegmentText", text |-> t, maxCharsPerLine |-> m] :
        t \in BalanceTexts, m \in BalanceLimits}

InitBalance ==
    /\ JobInit
    /\ disk = {}
    /\ SplitIdle
    /\ input \in BalanceInputs
    /\ output = NotRun
    /\ DelIdle
    /\ SvcIdle

\* one call of balanceSegmentText
CallBalanceSegmentText ==
    /\ output = NotRun
    /\ output' = BalanceSegmentText(input.text, input.maxCharsPerLine)
    /\ UNCHANGED <<jobVars, disk, splitVars, input, delVars, svcVars>>

NextBalance == CallBalanceSegmentText

SpecBalance == InitBalance /\ [][NextBalance]_vars

\* the positions of the line breaks of a text
LineBreaks(t) == {i \in 1..Len(t) : t[i] = "\n"}

\* C14: the balancer run on its own output returns that output.
C14_BalanceIdempotent ==
    output # NotRun =>
        BalanceSegmentText(output, input.maxCharsPerLine) = output

\* a text with a line break of its own whose balanced form has the break elsewhere
C14_Witness ==
    /\ output # NotRun
    /\ LineBreaks(input.text) # {}
    /\ LineBreaks(output) # {}
    /\ LineBreaks(output) # LineBreaks(input.text)

\* C15: the balancer's output has at most one line break, and then both lines
\* are within maxCharsPerLine; a text within maxCharsPerLine comes back as one
\* line; a text that no break at a space splits into two lines within the limit
\* comes back without a break.
C15_BalanceWithinLimit ==
    output # NotRun =>
        LET m == input.maxCharsPerLine
            cleaned == Trim(CollapseWhitespace(ReplaceNewlines(input.text), 1))
            splits == {i \in 1..Len(cleaned) :
                         cleaned[i] = " " /\ i - 1 <= m /\ Len(cleaned) - i <= m}
        IN /\ Cardinality(LineBreaks(output)) <= 1
           /\ \A i \in LineBreaks(output) : i - 1 <= m /\ Len(output) - i <= m
           /\ Len(input.text) <= m => LineBreaks(output) = {}
           /\ splits = {} => LineBreaks(output) = {}

\* a text broken into two lines where another space of it would have left a
\* line over the limit
C15_Witness ==
    /\ output # NotRun
    /\ LineBreaks(output) # {}
    /\ \E i \in 1..Len(output) :
          output[i] = " " /\ (i - 1 > input.maxCharsPerLine \/ Len(output) - i > input.maxCharsPerLine)

\* the spaces of text among the indices lo..hi that leave two lines within
\* maxCharsPerLine
FittingSpaces(text, lo, hi, maxCharsPerLine) ==
    {i \in lo..hi :
        /\ i >= 1 /\ i < Len(text)
        /\ text[i + 1] = " "
        /\ i <= maxCharsPerLine
        /\ Len(text) - i - 1 <= maxCharsPerLine}

\* |line1.length - line2.length| for a break at index i, 10 less after punctuation
BreakScore(text, i) ==
    Abs(i - (Len(text) - i - 1))
        - (IF text[i] \in {",", ";", ":", ".", "!", "?", EnDash, "-"} THEN 10 ELSE 0)

\* text with the space at index i replaced by a line break
BrokenAt(text, i) == SubSeq(text, 1, i) \o <<"\n">> \o SubSeq(text, i + 2, Len(text))

\* C27: a text longer than maxCharsPerLine is broken at a space of the lowest
\* score (imbalance of the two lines, 10 less after punctuation) among all
\* spaces within min(25, floor(length / 3)) of the midpoint that leave both
\* lines within maxCharsPerLine, and comes back unbroken only when there is no
\* such space.
C27_BalancedBreak ==
    output # NotRun =>
        LET m == input.maxCharsPerLine
            cleaned == Trim(CollapseWhitespace(ReplaceNewlines(input.text), 1))
            mid == Len(cleaned) \div 2
            r == Min(25, Len(cleaned) \div 3)
            spaces == FittingSpaces(cleaned, mid - r, mid + r, m)
        IN Len(cleaned) > m =>
              IF spaces = {} THEN output = cleaned
              ELSE \E i \in spaces :
                      /\ \A k \in spaces : BreakScore(cleaned, i) <= BreakScore(cleaned, k)
                      /\ output = BrokenAt(cleaned, i)

\* C27 (amended): the spaces considered are those within min(25, floor(length / 3))
\* of the midpoint that also lie at index 10 or more and at most at
\* length - 10; among those that leave both lines within maxCharsPerLine the
\* text is broken at the first one of the lowest score, and it comes back
\* unbroken only when there is none.
C27_BalancedBreakAwayFromEnds ==
    output # NotRun =>
        LET m == input.maxCharsPerLine
            cleaned == Trim(CollapseWhitespace(ReplaceNewlines(input.text), 1))
            mid == Len(cleaned) \div 2
            r == Min(25, Len(cleaned) \div 3)
            spaces == FittingSpaces(cleaned, Max(10, mid - r), Min(Len(cleaned) - 10, mid + r), m)
        IN Len(cleaned) > m =>
              IF spaces = {} THEN output = cleaned
              ELSE \E i \in spaces :
                      /\ \A k \in spaces :
                            \/ BreakScore(cleaned, i) < BreakScore(cleaned, k)
                            \/ BreakScore(cleaned, i) = BreakScore(cleaned, k) /\ i <= k
                      /\ output = BrokenAt(cleaned, i)

\* a text broken after a comma where an earlier space would have balanced the
\* two lines just as well
C27_Witness ==
    /\ output # NotRun
    /\ \E i \in LineBreaks(output) :
          /\ output[i - 1] = ","
          /\ \E k \in 11..(i - 1) :
                /\ output[k] = " "
                /\ k - 1 <= input.maxCharsPerLine
                /\ Len(output) - k <= input.maxCharsPerLine
                /\ Abs((k - 1) - (Len(output) - k)) <= Abs((i - 1) - (Len(output) - i))

----------------------------------------------------------------------------
(* The subtitle export (lib/export/subtitles): hexToASS and the SRT / VTT  *)
(* timestamps. Strings are sequences of characters.                        *)

Digits == <<"0", "1", "2", "3", "4", "5", "6", "7", "8", "9", "a", "b", "c", "d", "e", "f">>
UpperDigits == <<"0", "1", "2", "3", "4", "5", "6", "7", "8", "9", "A", "B", "C", "D", "E", "F">>

\* Number.prototype.toString(radix) of an integer n >= 0
RECURSIVE NumberToString(_, _)
NumberToString(n, radix) ==
    IF n < radix THEN <<Digits[n + 1]>>
    ELSE NumberToString(n \div radix, radix) \o <<Digits[(n % radix) + 1]>>

\* String.prototype.padStart(width, c)
RECURSIVE PadStart(_, _, _)
PadStart(t, width, c) == IF Len(t) >= width THEN t ELSE PadStart(<<c>> \o t, width, c)

\* String.prototype.toUpperCase
ToUpperCase(t) ==
    [i \in 1..Len(t) |->
        IF \E k \in 11..16 : Digits[k] = t[i]
        THEN UpperDigits[CHOOSE k \in 11..16 : Digits[k] = t[i]]
        ELSE t[i]]

\* hexColor.replace('#', ''): the first '#' removed
RemoveHash(t) ==
    LET at == {i \in 1..Len(t) : t[i] = "#"}
    IN IF at = {} THEN t
       ELSE LET i == CHOOSE i \in at : \A k \in at : i <= k
            IN SubSeq(t, 1, i - 1) \o SubSeq(t, i + 1, Len(t))

\* 2 ^ n
RECURSIVE Pow2(_)
Pow2(n) == IF n <= 0 THEN 1 ELSE 2 * Pow2(n - 1)

\* floor(log2(a / b)) for integers a, b > 0
RECURSIVE FloorLog2(_, _)
FloorLog2(a, b) ==
    IF a >= 2 * b THEN 1 + FloorLog2(a, 2 * b)
    ELSE IF a < b THEN FloorLog2(2 * a, b) - 1
    ELSE 0

\* Math.round(n * 2.55) in IEEE doubles, n an integer in 0..100. The double 2.55
\* is 2.55 - 0.4 * 2^-51, so the product lies just below n * 255 / 100 and differs
\* in its rounding only where that is a half h + 0.5: the product is then the
\* double h + 0.5 itself (rounded up to h + 1) when 8 * n <= 5 * 2^floor(log2 h),
\* and the double below it (rounded to h) otherwise.
RoundTimes255Hundredths(n) ==
    LET h == (n * 255) \div 100
        rem == (n * 255) % 100
    IN IF rem < 50 THEN h
       ELSE IF rem > 50 THEN h + 1
       ELSE IF 8 * n <= 5 * Pow2(FloorLog2(h, 1)) THEN h + 1
       ELSE h

\* alpha taken from the opacity without the inversion
HexToASS_OpacityAsAlpha(hexColor, opacity) ==
    LET hex == ToUpperCase(RemoveHash(hexColor))
        alphaHex == ToUpperCase(PadStart(NumberToString(RoundTimes255Hundredths(opacity), 16), 2, "0"))
    IN <<"&", "H">> \o alphaHex \o Substring(hex, 4, 6) \o Substring(hex, 2, 4) \o Substring(hex, 0, 2)

\* hexToASS(hexColor, opacity)
HexToASS(hexColor, opacity) ==
    LET hex == ToUpperCase(RemoveHash(hexColor))
        r == Substring(hex, 0, 2)
        g == Substring(hex, 2, 4)
        b == Substring(hex, 4, 6)
        alpha == RoundTimes255Hundredths(100 - opacity)
        alphaHex == ToUpperCase(PadStart(NumberToString(alpha, 16), 2, "0"))
    IN <<"&", "H">> \o alphaHex \o b \o g \o r

ColorBytes == {<<"0", "0">>, <<"a", "a">>, <<"3", "c">>, <<"F", "F">>}

\* six hex digits, with the leading '#' or without
Colors ==
    UNION {{<<"#">> \o r \o g \o b, r \o g \o b} : r \in ColorBytes, g \in ColorBytes, b \in ColorBytes}

ASSInputs == {[fn |-> "hexToASS", color |-> c, opacity |-> o] : c \in Colors, o \in 0..100}

InitASS ==
    /\ JobInit
    /\ disk = {}
    /\ SplitIdle
    /\ input \in ASSInputs
    /\ output = NotRun
    /\ DelIdle
    /\ SvcIdle

\* one call of hexToASS
CallHexToASS ==
    /\ output = NotRun
    /\ output' = HexToASS(input.color, input.opacity)
    /\ UNCHANGED <<jobVars, disk, splitVars, input, delVars, svcVars>>

NextASS == CallHexToASS

SpecASS == InitASS /\ [][NextASS]_vars

\* the value of a hex digit
HexValue(c) == (CHOOSE k \in 1..16 : UpperDigits[k] = c \/ Digits[k] = c) - 1

\* the alpha byte of an ASS colour
AlphaByte(ass) == 16 * HexValue(ass[3]) + HexValue(ass[4])

\* C19: for a 6-digit colour and an opacity in 0..100, hexToASS returns '&H',
\* an alpha byte that is (100 - opacity) x 2.55 rounded to a nearest integer (in
\* 0..255, 00 at opacity 100, FF at opacity 0, not increasing with the opacity)
\* and the colour bytes in blue, green, red order; '#FFFFFF' at 80 gives
\* '&H33FFFFFF'.
C19_HexToASS ==
    output # NotRun =>
        LET o == input.opacity
            rgb == ToUpperCase(SubSeq(input.color, Len(input.color) - 5, Len(input.color)))
            a == AlphaByte(output)
        IN /\ Len(output) = 10
           /\ SubSeq(output, 1, 2) = <<"&", "H">>
           /\ \A i \in 3..10 : \E k \in 1..16 : UpperDigits[k] = output[i]
           /\ a \in 0..255
           /\ 100 * a - 255 * (100 - o) \in (0 - 50)..50
           /\ o = 100 => a = 0
           /\ o = 0 => a = 255
           /\ o < 100 => AlphaByte(HexToASS(input.color, o + 1)) <= a
           /\ SubSeq(output, 5, 6) = SubSeq(rgb, 5, 6)
           /\ SubSeq(output, 7, 8) = SubSeq(rgb, 3, 4)
           /\ SubSeq(output, 9, 10) = SubSeq(rgb, 1, 2)
           /\ (input.color = <<"#", "F", "F", "F", "F", "F", "F">> /\ o = 80) =>
                 output = <<"&", "H", "3", "3", "F", "F", "F", "F", "F", "F">>

\* a colour with three different bytes, in lower case, at a partial opacity
C19_Witness ==
    /\ output # NotRun
    /\ input.color = <<"#", "a", "a", "0", "0", "F", "F">>
    /\ input.opacity = 80
    /\ output = <<"&", "H", "3", "3", "F", "F", "0", "0", "A", "A">>

----------------------------------------------------------------------------
(* The timestamps. A time is given in whole milliseconds t; the number the *)
(* code receives is the double nearest to t / 1000.                        *)

\* 2 ^ e modulo 1000
RECURSIVE Pow2Mod1000(_)
Pow2Mod1000(e) == IF e <= 0 THEN 1 ELSE (2 * Pow2Mod1000(e - 1)) % 1000

\* Math.floor(seconds / 3600), Math.floor((seconds % 3600) / 60), Math.floor(seconds % 60):
\* the double is within 2^-53 of t / 1000 (relative), which is a whole number of
\* seconds or at least a millisecond away from one
HoursField(t) == t \div 3600000
MinutesField_NoHourWrap(t) == t \div 60000
MinutesField(t) == (t % 3600000) \div 60000
SecondsField(t) == (t % 60000) \div 1000

\* Math.floor((seconds % 1) * 1000). With k = t mod 1000, 2^j <= t / 1000 < 2^(j+1)
\* and rem = (t * 2^(52-j)) mod 1000, the double is t / 1000 - rem / 1000 ulp for
\* rem < 500 and above t / 1000 for rem > 500 (ulp = 2^(j-52); rem = 500 needs
\* t >= 1000 * 2^50). seconds % 1 is exact; its product with 1000 is k - rem ulp,
\* which rounds to the double k exactly when rem <= 2^(jk-j-1) for 2^jk < k <
\* 2^(jk+1), and when rem <= 2^(jk-j-2) for k = 2^jk; otherwise it is below k and
\* the floor is k - 1.
MillisecondsField(t) ==
    LET k == t % 1000
        j == FloorLog2(t, 1000)
        rem == (k * Pow2Mod1000(52 - j)) % 1000
        jk == FloorLog2(k, 1)
        ex == jk - j - 1 - (IF k = Pow2(jk) THEN 1 ELSE 0)
    IN IF k = 0 \/ rem = 0 \/ rem > 500 THEN k
       ELSE IF ex >= 0 /\ rem <= Pow2(ex) THEN k
       ELSE k - 1

\* n.toString().padStart(width, '0')
Padded(n, width) == PadStart(NumberToString(n, 10), width, "0")

\* the fields joined as HH:MM:SS<sep>mmm
Timestamp(t, sep) ==
    Padded(HoursField(t), 2) \o <<":">> \o Padded(MinutesField(t), 2) \o <<":">>
    \o Padded(SecondsField(t), 2) \o <<sep>> \o Padded(MillisecondsField(t), 3)

\* formatSRTTime(seconds)
FormatSRTTime(t) == Timestamp(t, ",")

\* formatVTTTime(seconds)
FormatVTTTime(t) == Timestamp(t, ".")

MaxSeconds == 2

\* the whole seconds the times start from: the first ones, and the ones around
\* a minute, an hour, a day and a hundred hours
SecondsBases == (0..MaxSeconds) \cup {59, 60, 3599, 3600, 86399, 359999, 360000}

Times == {1000 * b + k : b \in SecondsBases, k \in 0..999}

NoTimestamps == [srt |-> NotRun, vtt |-> NotRun]

InitTimes ==
    /\ JobInit
    /\ disk = {}
    /\ SplitIdle
    /\ input \in {[fn |-> "formatTime", t |-> t] : t \in Times}
    /\ output = NoTimestamps
    /\ DelIdle
    /\ SvcIdle

\* generateSRT formats the time of a segment
CallFormatSRTTime ==
    /\ output.srt = NotRun
    /\ output' = [output EXCEPT !.srt = FormatSRTTime(input.t)]
    /\ UNCHANGED <<jobVars, disk, splitVars, input, delVars, svcVars>>

\* generateVTT formats the time of a segment
CallFormatVTTTime ==
    /\ output.vtt = NotRun
    /\ output' = [output EXCEPT !.vtt = FormatVTTTime(input.t)]
    /\ UNCHANGED <<jobVars, disk, splitVars, input, delVars, svcVars>>

NextTimes == CallFormatSRTTime \/ CallFormatVTTTime

SpecTimes == InitTimes /\ [][NextTimes]_vars

\* the number written by a sequence of decimal digits
RECURSIVE ParseDecimal(_)
ParseDecimal(t) ==
    IF Len(t) = 0 THEN 0
    ELSE 10 * ParseDecimal(SubSeq(t, 1, Len(t) - 1)) + HexValue(t[Len(t)])

\* the fields of a timestamp: split at ':' and at the separator
TimestampFields(ts, sep) ==
    LET parts == SplitSlash([i \in 1..Len(ts) |-> IF ts[i] \in {":", sep} THEN "/" ELSE ts[i]], 1, <<>>)
    IN [i \in 1..Len(parts) |-> ParseDecimal(parts[i])]

\* hours, minutes, seconds and milliseconds back to a time in milliseconds
FieldsToMillis(f) == ((f[1] * 60 + f[2]) * 60 + f[3]) * 1000 + f[4]

\* C20: the SRT timestamp of a time t in whole milliseconds has the form
\* HH:MM:SS,mmm and parses back to t within 1 ms, and the VTT timestamp of t
\* carries the same four fields.
C20_TimestampRoundTrip ==
    /\ output.srt # NotRun =>
          LET f == TimestampFields(output.srt, ",")
          IN /\ Len(f) = 4
             /\ Len(output.srt) = Len(Padded(f[1], 2)) + 10
             /\ f[2] \in 0..59 /\ f[3] \in 0..59 /\ f[4] \in 0..999
             /\ input.t - FieldsToMillis(f) \in (0 - 1)..1
    /\ (output.srt # NotRun /\ output.vtt # NotRun) =>
          TimestampFields(output.vtt, ".") = TimestampFields(output.srt, ",")

\* a time past the hour whose milliseconds come out one lower, in both formats
C20_Witness ==
    /\ output.srt # NotRun
    /\ output.vtt # NotRun
    /\ input.t >= 3600000
    /\ FieldsToMillis(TimestampFields(output.srt, ",")) = input.t - 1

----------------------------------------------------------------------------
(* The delete routes: DELETE /api/transcriptions/:id and DELETE            *)
(* /api/files/:id on the tables and the bucket. A URL is an origin and a   *)
(* path of segments; an object key is a path of segments.                  *)

\* a URL field that is null or undefined, and one that is the empty string
NullUrl == [origin |-> "null", path |-> <<>>]
EmptyUrl == [origin |-> "", path |-> <<>>]

\* process.env.S3_FILE_URL: unset, or a public URL without or with a path
FileUrlSettings ==
    {NullUrl, [origin |-> "cdn", path |-> <<>>], [origin |-> "cdn", path |-> <<"media">>]}

\* S3Storage.publicUrl: config.publicUrl || `https://${endpoint}/${bucketName}`
PublicUrl(env) ==
    IF env # NullUrl THEN env ELSE [origin |-> "endpoint", path |-> <<"bucket">>]

\* getPublicUrl(key): `${publicUrl}/${key}`
GetPublicUrl(env, key) ==
    [origin |-> PublicUrl(env).origin, path |-> PublicUrl(env).path \o key]

\* extractKey(url) of the transcriptions route: the set of the key, empty for null
ExtractKey(env, url) ==
    IF url = NullUrl \/ url = EmptyUrl \/ env = NullUrl THEN {}
    ELSE IF url.origin = env.origin /\ StartsWith(url.path, env.path)
         THEN {SubSeq(url.path, Len(env.path) + 1, Len(url.path))}
         ELSE {}

\* new URL(file.StorageUrl).pathname.substring(1) of the files route
PathnameKey(url) == url.path

\* the keys of the objects of file `name`: original, audio, 480p preview, thumbnail
UploadKey(name)    == <<"upload", name>>
AudioKey(name)     == <<"audio", name>>
VideoKey(name)     == <<"video", name>>
ThumbnailKey(name) == <<"thumbs", name>>

FileShapes == {"processing", "audio", "video", "video-no-thumbnail"}

\* the Files row as the upload routes leave it: at creation (and after a failed
\* job) OriginalUrl and StorageUrl are the original's URL; the final update of a
\* ready file sets AudioUrl, PreviewUrl, ThumbnailUrl and StorageUrl = preview
\* or audio
FileRow(id, name, shape, userId, env) ==
    LET previewUrl == IF shape \in {"video", "video-no-thumbnail"}
                      THEN GetPublicUrl(env, VideoKey(name)) ELSE NullUrl
        audioUrl == IF shape = "processing" THEN EmptyUrl ELSE GetPublicUrl(env, AudioKey(name))
    IN [Id |-> id, UserId |-> userId,
        OriginalUrl |-> GetPublicUrl(env, UploadKey(name)),
        PreviewUrl |-> previewUrl,
        ThumbnailUrl |-> IF shape = "video" THEN GetPublicUrl(env, ThumbnailKey(name)) ELSE NullUrl,
        AudioUrl |-> audioUrl,
        StorageUrl |-> IF shape = "processing" THEN GetPublicUrl(env, UploadKey(name))
                       ELSE IF previewUrl # NullUrl THEN previewUrl ELSE audioUrl]

\* the objects the row's URLs refer to
ObjectsOfFile(name, shape) ==
    {UploadKey(name)}
    \cup (IF shape = "processing" THEN {} ELSE {AudioKey(name)})
    \cup (IF shape \in {"video", "video-no-thumbnail"} THEN {VideoKey(name)} ELSE {})
    \cup (IF shape = "video" THEN {ThumbnailKey(name)} ELSE {})

MaxSegments == 2
MaxLanguages == 2

\* list(..., { where, limit: 10000 }) and the batches of 50 of the delete loops
ListLimit == 10000
BATCH_SIZE == 50

\* a row that does not exist, and a transcription without a file
NoRow == [Id |-> 0]
NoFileId == 0

SessionUser == "u1"

\* transcription 1 of file 1 with nSeg segments translated into nLang languages
\* (one TranslatedSegments row per segment and language), and transcription 2
\* without a file, with one segment
TablesInit(nSeg, nLang, shape, owner, env) ==
    [Transcriptions |-> {[Id |-> 1, FileId |-> 1, UserId |-> owner],
                         [Id |-> 2, FileId |-> NoFileId, UserId |-> SessionUser]},
     TranscriptionSegments |->
        {[Id |-> 10 + i, TranscriptionId |-> 1] : i \in 1..nSeg}
        \cup {[Id |-> 20, TranscriptionId |-> 2]},
     TranslatedSegments |->
        {[Id |-> 100 * l + i, TranscriptionId |-> 1, TargetLanguage |-> l] : i \in 1..nSeg, l \in 1..nLang},
     Files |-> {FileRow(1, "f1", shape, owner, env)}]

\* no request yet: the locals of the handlers are unset
RequestIdle(env) ==
    [pc |-> "idle", env |-> env, op |-> "", id |-> 0, fileId |-> NoFileId,
     segmentIds |-> {}, fileRecord |-> NoRow, status |-> 0]

InitDelete ==
    /\ JobInit
    /\ disk = {}
    /\ SplitIdle
    /\ FnIdle
    /\ SvcIdle
    /\ \E nSeg \in 0..MaxSegments, nLang \in 0..MaxLanguages, shape \in FileShapes,
          owner \in {"u1", "u2"}, env \in FileUrlSettings :
          /\ tables = TablesInit(nSeg, nLang, shape, owner, env)
          /\ objects = ObjectsOfFile("f1", shape)
          /\ del = RequestIdle(env)

\* db.dbTableRow.read(table, id): the row, or NoRow
ReadRow(table, id) ==
    IF \E r \in tables[table] : r.Id = id
    THEN CHOOSE r \in tables[table] : r.Id = id
    ELSE NoRow

\* list(table, { where: (TranscriptionId,eq,id), limit }): the Ids of the rows
\* returned, any ListLimit of them when there are more
Listings(table, id) ==
    LET rows == {r.Id : r \in {x \in tables[table] : x.TranscriptionId = id}}
    IN IF Cardinality(rows) <= ListLimit THEN {rows}
       ELSE {l \in SUBSET rows : Cardinality(l) = ListLimit}

\* segmentIds.slice(i, i + BATCH_SIZE) of the ids not yet handled
Batches(ids) ==
    IF Cardinality(ids) <= BATCH_SIZE THEN {ids}
    ELSE {b \in SUBSET ids : Cardinality(b) = BATCH_SIZE}

\* the rows without those whose Id is in ids
WithoutIds(rows, ids) == {r \in rows : r.Id \notin ids}

\* return NextResponse.json(..., { status })
Respond(status) ==
    del' = [del EXCEPT !.pc = "responded", !.status = status]

\* DELETE /api/transcriptions/:id: auth(), read of the transcription, ownership
DeleteTranscriptionBegin ==
    /\ del.pc \in {"idle", "responded"}
    /\ \E id \in {1, 2, 3}, authed \in BOOLEAN, readOk \in BOOLEAN :
        LET transcription == ReadRow("Transcriptions", id)
            request == [RequestIdle(del.env) EXCEPT !.op = "transcription", !.id = id]
        IN del' = IF ~authed THEN [request EXCEPT !.pc = "responded", !.status = 401]
                  ELSE IF ~readOk THEN [request EXCEPT !.pc = "responded", !.status = 500]
                  ELSE IF transcription = NoRow THEN [request EXCEPT !.pc = "responded", !.status = 404]
                  ELSE IF transcription.UserId # SessionUser
                       THEN [request EXCEPT !.pc = "responded", !.status = 403]
                  ELSE [request EXCEPT !.pc = "list", !.fileId = transcription.FileId]
    /\ UNCHANGED <<jobVars, disk, splitVars, fnVars, svcVars, tables, objects>>

\* list of the TranscriptionSegments of the transcription
ListSegments ==
    /\ del.pc = "list"
    /\ \/ \E ids \in Listings("TranscriptionSegments", del.id) :
             del' = [del EXCEPT !.segmentIds = ids,
                                !.pc = IF ids = {} THEN "delete_transcription" ELSE "batch"]
       \/ Respond(500)
    /\ UNCHANGED <<jobVars, disk, splitVars, fnVars, svcVars, tables, objects>>

\* one batch: Promise.all of the deletes; the deletes that succeed remove their
\* rows, one that rejects makes the handler answer 500
DeleteSegmentBatch ==
    /\ del.pc = "batch"
    /\ \E batch \in Batches(del.segmentIds) : \E failed \in SUBSET batch :
        /\ tables' = [tables EXCEPT !.TranscriptionSegments = WithoutIds(@, batch \ failed)]
        /\ IF failed # {} THEN Respond(500)
           ELSE del' = [del EXCEPT !.segmentIds = @ \ batch,
                                   !.pc = IF del.segmentIds \ batch = {}
                                          THEN "delete_transcription" ELSE "batch"]
    /\ UNCHANGED <<jobVars, disk, splitVars, fnVars, svcVars, objects>>

\* delete of the Transcriptions row: done, rejected (500), or answered without
\* the row being removed
DeleteTranscriptionRow ==
    /\ del.pc = "delete_transcription"
    /\ \/ /\ tables' = [tables EXCEPT !.Transcriptions = WithoutIds(@, {del.id})]
          /\ del' = [del EXCEPT !.pc = "verify"]
       \/ /\ UNCHANGED tables
          /\ del' = [del EXCEPT !.pc = "verify"]
       \/ /\ UNCHANGED tables
          /\ Respond(500)
    /\ UNCHANGED <<jobVars, disk, splitVars, fnVars, svcVars, objects>>

\* read(...).catch(() => null): 500 when the row is read back
VerifyDeleted ==
    /\ del.pc = "verify"
    /\ \E readOk \in BOOLEAN :
        IF readOk /\ ReadRow("Transcriptions", del.id) # NoRow THEN Respond(500)
        ELSE IF del.fileId # NoFileId THEN del' = [del EXCEPT !.pc = "read_file"]
        ELSE Respond(200)
    /\ UNCHANGED <<jobVars, disk, splitVars, fnVars, svcVars, tables, objects>>

\* read of the Files row (inside try: a failure is logged, the answer is 200)
ReadFileRecord ==
    /\ del.pc = "read_file"
    /\ \/ del' = [del EXCEPT !.fileRecord = ReadRow("Files", del.fileId),
                              !.pc = IF ReadRow("Files", del.fileId) # NoRow
                                     THEN "delete_objects" ELSE "delete_file"]
       \/ Respond(200)
    /\ UNCHANGED <<jobVars, disk, splitVars, fnVars, svcVars, tables, objects>>

\* keysToDelete and the loop over it: s3.delete(key) inside try / catch
DeleteObjects ==
    /\ del.pc = "delete_objects"
    /\ LET keysToDelete == ExtractKey(del.env, del.fileRecord.OriginalUrl)
                            \cup ExtractKey(del.env, del.fileRecord.PreviewUrl)
                            \cup ExtractKey(del.env, del.fileRecord.ThumbnailUrl)
                            \cup ExtractKey(del.env, del.fileRecord.AudioUrl)
       IN \E failed \in SUBSET keysToDelete :
            objects' = objects \ (keysToDelete \ failed)
    /\ del' = [del EXCEPT !.pc = "delete_file"]
    /\ UNCHANGED <<jobVars, disk, splitVars, fnVars, svcVars, tables>>

\* delete of the Files row (inside try), then the answer 200
DeleteFileRow ==
    /\ del.pc = "delete_file"
    /\ \E ok \in BOOLEAN :
        tables' = IF ok THEN [tables EXCEPT !.Files = WithoutIds(@, {del.fileId})] ELSE tables
    /\ Respond(200)
    /\ UNCHANGED <<jobVars, disk, splitVars, fnVars, svcVars, objects>>

\* DELETE /api/files/:id: auth(), read of the file, ownership
DeleteFileBegin ==
    /\ del.pc \in {"idle", "responded"}
    /\ \E id \in {1, 2, 3}, authed \in BOOLEAN, readOk \in BOOLEAN :
        LET file == ReadRow("Files", id)
            request == [RequestIdle(del.env) EXCEPT !.op = "file", !.id = id, !.fileId = id]
        IN del' = IF ~authed THEN [request EXCEPT !.pc = "responded", !.status = 401]
                  ELSE IF ~readOk THEN [request EXCEPT !.pc = "responded", !.status = 500]
                  ELSE IF file = NoRow THEN [request EXCEPT !.pc = "responded", !.status = 404]
                  ELSE IF file.UserId # SessionUser
                       THEN [request EXCEPT !.pc = "responded", !.status = 403]
                  ELSE [request EXCEPT !.pc = "delete_storage", !.fileRecord = file]
    /\ UNCHANGED <<jobVars, disk, splitVars, fnVars, svcVars, tables, objects>>

\* if (file.StorageUrl) try { s3.delete(pathname key) } catch { log }
DeleteStorageObject ==
    /\ del.pc = "delete_storage"
    /\ IF del.fileRecord.StorageUrl \notin {NullUrl, EmptyUrl}
       THEN \E ok \in BOOLEAN :
              objects' = IF ok THEN objects \ {PathnameKey(del.fileRecord.StorageUrl)} ELSE objects
       ELSE UNCHANGED objects
    /\ del' = [del EXCEPT !.pc = "delete_row"]
    /\ UNCHANGED <<jobVars, disk, splitVars, fnVars, svcVars, tables>>

\* delete of the Files row: 200, or 500 when it rejects
DeleteFileRowOfFile ==
    /\ del.pc = "delete_row"
    /\ \/ /\ tables' = [tables EXCEPT !.Files = WithoutIds(@, {del.id})]
          /\ Respond(200)
       \/ /\ UNCHANGED tables
          /\ Respond(500)
    /\ UNCHANGED <<jobVars, disk, splitVars, fnVars, svcVars, objects>>

NextDelete ==
    \/ DeleteTranscriptionBegin
    \/ ListSegments
    \/ DeleteSegmentBatch
    \/ DeleteTranscriptionRow
    \/ VerifyDeleted
    \/ ReadFileRecord
    \/ DeleteObjects
    \/ DeleteFileRow
    \/ DeleteFileBegin
    \/ DeleteStorageObject
    \/ DeleteFileRowOfFile

SpecDelete == InitDelete /\ [][NextDelete]_vars

\* the rows of `table` that belong to transcription id
ChildRows(table, id) == {r \in tables[table] : r.TranscriptionId = id}

\* the objects of file 1 that are in the bucket
ObjectsLeft == {k \in objects : k[Len(k)] = "f1"}

\* C17: after DELETE /api/transcriptions/:id has answered 200, no
\* TranscriptionSegments row and no TranslatedSegments row of that transcription
\* remains.
C17_ChildrenDeleted ==
    (del.pc = "responded" /\ del.op = "transcription" /\ del.status = 200) =>
        /\ ChildRows("TranscriptionSegments", del.id) = {}
        /\ ChildRows("TranslatedSegments", del.id) = {}

\* C18: after DELETE /api/files/:id, or DELETE /api/transcriptions/:id of a
\* transcription with a file, has answered 200, the Files row is gone and no
\* object its OriginalUrl, PreviewUrl, ThumbnailUrl or AudioUrl referred to is
\* in the bucket.
C18_ArtifactsDeleted ==
    (del.pc = "responded" /\ del.status = 200 /\ del.fileId = 1) =>
        /\ ReadRow("Files", 1) = NoRow
        /\ ObjectsLeft = {}

----------------------------------------------------------------------------
(* The first pass of the loop of splitTextIntoChunks on texts longer than  *)
(* two budgets: phrases of short words, each followed by a break, then a   *)
(* long word                                                               *)

MaxPhrases == 3
PhraseWordLens == {1, 2, 3}
PhraseEnds == {<<" ">>, <<".", " ">>, <<",", " ">>, <<" ", "-", " ">>}
Budgets == {4, 10}

Phrases == {[i \in 1..n |-> "a"] \o e : n \in PhraseWordLens, e \in PhraseEnds}

RECURSIVE Concat(_, _)
Concat(s, i) == IF i > Len(s) THEN <<>> ELSE s[i] \o Concat(s, i + 1)

SplitPointInputs ==
    {[fn |-> "splitTextIntoChunks",
      text |-> Concat(p, 1) \o [i \in 1..(2 * m + 1) |-> "a"],
      maxChars |-> m] :
        p \in UNION {[1..n -> Phrases] : n \in 0..MaxPhrases}, m \in Budgets}

InitSplitPoint ==
    /\ JobInit
    /\ disk = {}
    /\ SplitIdle
    /\ input \in SplitPointInputs
    /\ output = NotRun
    /\ DelIdle
    /\ SvcIdle

\* splitTextIntoChunks(text, maxChars): the split index of the first pass of the
\* while loop, and the chunks returned
CallSplitTextIntoChunks ==
    /\ output = NotRun
    /\ LET remaining == Trim(input.text)
           found == FindBalancedSplitPoint(remaining, input.maxChars)
       IN output' = [splitIndex |-> IF found <= 0 THEN input.maxChars ELSE found,
                     chunks |-> SplitTextIntoChunks(input.text, input.maxChars)]
    /\ UNCHANGED <<jobVars, disk, splitVars, input, delVars, svcVars>>

SpecSplitPoint == InitSplitPoint /\ [][CallSplitTextIntoChunks]_vars

\* the indices inside the first maxChars characters where one of the patterns
\* starts, at or after tenths/10 of maxChars
BreaksAt(text, maxChars, patterns, tenths) ==
    {i \in 0..(maxChars - 1) :
        /\ 10 * i >= tenths * maxChars
        /\ \E k \in 1..Len(patterns) :
              /\ i + Len(patterns[k]) <= maxChars
              /\ SubSeq(text, i + 1, i + Len(patterns[k])) = patterns[k]}

\* C26: on a text longer than two budgets the split point inside the first
\* maxChars characters is right after a sentence terminator lying after at least
\* 30% of the budget if there is one; otherwise at the end of a clause break
\* lying after at least 40%; otherwise at the last space of the budget;
\* otherwise at maxChars.
C26_BreakPriority ==
    output # NotRun =>
        LET text == Trim(input.text)
            m == input.maxChars
            sentences == BreaksAt(text, m, SentenceEnds, 3)
            clauses == BreaksAt(text, m, ClauseBreaks, 4)
            spaces == {i \in 0..(m - 1) : text[i + 1] = " "}
            split == output.splitIndex
        IN IF sentences # {} THEN split - 1 \in sentences
           ELSE IF clauses # {}
                THEN CharAt(text, split) = " " /\ {split - 1, split - 2} \cap clauses # {}
           ELSE IF spaces # {} THEN split \in spaces /\ \A i \in spaces : i <= split
           ELSE split = m

----------------------------------------------------------------------------
(* The re-split route (POST /api/transcriptions/[id]/resplit) calling      *)
(* splitLongSegments with the options of the request body, the while loop  *)
(* of splitTextIntoChunks one iteration at a time. Only the texts of the   *)
(* segments are kept: the timing of the chunks has no part in the loops.   *)

MaxResplitTextLen == 3
MaxBatch == 2
\* the loop of a call that never ends is followed for MaxChunks iterations
MaxChunks == 4

ResplitTexts == UNION {[1..n -> {"a", " "}] : n \in 0..MaxResplitTextLen}

\* the rows of the transcription and the body of the request: any integers
ResplitRequests ==
    [segments : UNION {[1..n -> ResplitTexts] : n \in 1..MaxBatch},
     maxCharsPerLine : (0 - 2)..2,
     maxLines : (0 - 1)..2]

InitResplit ==
    /\ JobInit
    /\ disk = {}
    /\ SplitIdle
    /\ FnIdle
    /\ DelIdle
    /\ \E q \in ResplitRequests :
          loop = [pc |-> "request", segments |-> q.segments,
                  maxCharsPerLine |-> q.maxCharsPerLine, maxLines |-> q.maxLines,
                  maxChars |-> 0, index |-> 1, remaining |-> <<>>,
                  chunks |-> <<>>, result |-> <<>>]
    /\ rateLimitStore = <<>>
    /\ now = 0
    /\ history = <<>>
    /\ transcribe = [pc |-> "none"]
    /\ translate = <<>>

ResplitUnchanged ==
    UNCHANGED <<jobVars, disk, splitVars, fnVars, delVars,
                rateLimitStore, now, history, transcribe, translate>>

\* POST: const { maxCharsPerLine = 42, maxLines = 2 } = body, then
\* splitLongSegments(rawSegments, { maxCharsPerLine, maxLines, ... }); splitSegment
\* computes maxChars = opts.maxCharsPerLine * opts.maxLines
PostResplit ==
    /\ loop.pc = "request"
    /\ loop' = [loop EXCEPT !.pc = "segment",
                            !.maxChars = loop.maxCharsPerLine * loop.maxLines]
    /\ ResplitUnchanged

\* splitLongSegments: for (const segment of segments) splitSegment(segment, options),
\* up to the call of splitTextIntoChunks; the return after the last segment
SplitSegmentBegin ==
    /\ loop.pc = "segment"
    /\ IF loop.index > Len(loop.segments)
       THEN loop' = [loop EXCEPT !.pc = "returned"]
       ELSE LET text == Trim(loop.segments[loop.index])
            IN IF Len(text) <= loop.maxChars
               THEN loop' = [loop EXCEPT !.result = Append(@, text), !.index = @ + 1]
               ELSE loop' = [loop EXCEPT !.pc = "while", !.remaining = Trim(text),
                                         !.chunks = <<>>]
    /\ ResplitUnchanged

\* splitTextIntoChunks: one pass of while (remaining.length > maxChars)
ChunkIteration ==
    /\ loop.pc = "while"
    /\ Len(loop.remaining) > loop.maxChars
    /\ Len(loop.chunks) < MaxChunks
    /\ LET found == FindBalancedSplitPoint(loop.remaining, loop.maxChars)
           splitIndex == IF found <= 0 THEN loop.maxChars ELSE found
       IN loop' = [loop EXCEPT
                     !.chunks = Append(@, Trim(Substring(loop.remaining, 0, splitIndex))),
                     !.remaining = Trim(SubstringFrom(loop.remaining, splitIndex))]
    /\ ResplitUnchanged

\* splitTextIntoChunks: the loop condition false, the rest pushed, the chunks of
\* the segment added to the result of splitLongSegments
ChunkLoopExit ==
    /\ loop.pc = "while"
    /\ Len(loop.remaining) <= loop.maxChars
    /\ LET chunks == IF Len(loop.remaining) > 0
                     THEN Append(loop.chunks, loop.remaining) ELSE loop.chunks
       IN loop' = [loop EXCEPT !.pc = "segment", !.result = @ \o chunks,
                               !.chunks = chunks, !.index = @ + 1]
    /\ ResplitUnchanged

NextResplit ==
    \/ PostResplit
    \/ SplitSegmentBegin
    \/ ChunkIteration
    \/ ChunkLoopExit

SpecResplit == InitResplit /\ [][NextResplit]_vars

\* C28: splitLongSegments returns for every integer maxCharsPerLine and
\* maxLines of the request body: every pass of the chunking loop leaves the
\* remaining text at least one character shorter.
C28_LoopConsumes ==
    [][(loop.pc = "while" /\ loop'.pc = "while") =>
           Len(loop'.remaining) < Len(loop.remaining)]_vars

----------------------------------------------------------------------------
(* The rate limiter (lib/rate-limit): checkRateLimit and the cleanup timer *)
(* on the in-memory store. Date.now() is the clock `now`, in milliseconds, *)
(* advancing in steps of TickMs; `history` is the log of the calls made.   *)

MaxCalls == 3
MaxTicks == 5
TickMs == 500
MsPerSecond == 1000

Identifiers == {"login:a", "login:b"}

\* RateLimitConfig values with maxRequests >= 1
RateLimitConfigs ==
    {[maxRequests |-> 1, windowSeconds |-> 1],
     [maxRequests |-> 2, windowSeconds |-> 2]}

\* rateLimitStore.get(key) of a key that is not in the map
NoEntry == [set |-> FALSE, count |-> 0, resetTime |-> 0]

InitRateLimit ==
    /\ JobInit
    /\ disk = {}
    /\ SplitIdle
    /\ FnIdle
    /\ DelIdle
    /\ loop = [pc |-> "none"]
    /\ rateLimitStore = [k \in Identifiers |-> NoEntry]
    /\ now = 0
    /\ history = <<>>
    /\ transcribe = [pc |-> "none"]
    /\ translate = <<>>

RateLimitUnchanged ==
    UNCHANGED <<jobVars, disk, splitVars, fnVars, delVars, loop, transcribe, translate>>

\* the entry also counts at the instant of its resetTime
Expired_AtReset(entry, t) == entry.resetTime <= t

\* entry.resetTime < now
Expired(entry, t) == entry.resetTime < t

\* checkRateLimit(identifier, config)
CheckRateLimit(identifier, config) ==
    /\ Len(history) < MaxCalls
    /\ LET windowMs == config.windowSeconds * MsPerSecond
           entry == rateLimitStore[identifier]
           call == [identifier |-> identifier, maxRequests |-> config.maxRequests,
                    windowMs |-> windowMs, time |-> now]
       IN IF ~entry.set \/ Expired(entry, now)
          THEN /\ rateLimitStore' = [rateLimitStore EXCEPT ![identifier] =
                                        [set |-> TRUE, count |-> 1, resetTime |-> now + windowMs]]
               /\ history' = Append(history, call @@ [success |-> TRUE,
                                                       resetTime |-> now + windowMs])
          ELSE /\ rateLimitStore' = [rateLimitStore EXCEPT ![identifier].count = @ + 1]
               /\ history' = Append(history, call @@
                                 [success |-> ~(entry.count + 1 > config.maxRequests),
                                  resetTime |-> entry.resetTime])
    /\ UNCHANGED now
    /\ RateLimitUnchanged

\* the setInterval callback of startCleanup; the timer exists after the first call
Cleanup ==
    /\ history # <<>>
    /\ rateLimitStore' = [k \in Identifiers |->
                             IF rateLimitStore[k].set /\ Expired(rateLimitStore[k], now)
                             THEN NoEntry ELSE rateLimitStore[k]]
    /\ rateLimitStore' # rateLimitStore
    /\ UNCHANGED <<now, history>>
    /\ RateLimitUnchanged

\* time passes
Tick ==
    /\ now < MaxTicks * TickMs
    /\ now' = now + TickMs
    /\ UNCHANGED <<rateLimitStore, history>>
    /\ RateLimitUnchanged

NextRateLimit ==
    \/ \E identifier \in Identifiers, config \in RateLimitConfigs :
          CheckRateLimit(identifier, config)
    \/ Cleanup
    \/ Tick

SpecRateLimit == InitRateLimit /\ [][NextRateLimit]_vars

\* the calls before call k for the same identifier, and the latest of them
Earlier(k) == {j \in 1..(k - 1) : history[j].identifier = history[k].identifier}
Previous(k) == CHOOSE j \in Earlier(k) : \A i \in Earlier(k) : i <= j

\* call k is the first one for its identifier, or the first one after the
\* resetTime of the window of the call before it
OpensWindow(k) ==
    Earlier(k) = {} \/ history[Previous(k)].resetTime < history[k].time

\* the calls of the window that call i opened
WindowCalls(i) ==
    {k \in i..Len(history) :
        /\ history[k].identifier = history[i].identifier
        /\ \A j \in (i + 1)..k :
              history[j].identifier = history[i].identifier => ~OpensWindow(j)}

\* C29: of the calls of one window (from the call that opened it up to and
\* including its resetTime) made with a config of maxRequests >= 1, at most
\* maxRequests succeed; a call inside a window, rejected or not, leaves its
\* resetTime as it was; the first call after the resetTime succeeds and opens
\* a window of its own config's length.
C29_AtMostMaxRequestsPerWindow ==
    \A k \in 1..Len(history) :
        IF OpensWindow(k)
        THEN /\ history[k].success
             /\ history[k].resetTime = history[k].time + history[k].windowMs
             /\ \A config \in RateLimitConfigs :
                   Cardinality({c \in WindowCalls(k) :
                                   /\ history[c].maxRequests = config.maxRequests
                                   /\ history[c].success}) <= config.maxRequests
        ELSE history[k].resetTime = history[Previous(k)].resetTime

\* a call rejected inside a window, a call made at the instant of a resetTime
\* and counted in that window, and a last call after the resetTime of the
\* rejected one that succeeds with a count of 1
C29_Witness ==
    /\ \E j, k \in 1..Len(history) :
          /\ j < k
          /\ history[j].identifier = history[k].identifier
          /\ ~history[j].success
          /\ history[j].resetTime < history[k].time
          /\ history[k].success
          /\ k = Len(history)
          /\ rateLimitStore[history[k].identifier].count = 1
    /\ \E c \in 1..Len(history) :
          history[c].time = history[c].resetTime /\ ~OpensWindow(c)

----------------------------------------------------------------------------
(* The translation routes: POST /api/translate and POST                    *)
(* /api/translate/stream on the tables, for requests handled concurrently  *)

TranslateRequests == {"r1", "r2"}
TargetLanguages == {"en", "sv"}

\* transcription 1 of `owner` in status `status` with nSeg segments, not translated
TranslateTablesInit(nSeg, owner, status) ==
    [Transcriptions |-> {[Id |-> 1, UserId |-> owner, Status |-> status]},
     TranscriptionSegments |-> {[Id |-> 10 + i, TranscriptionId |-> 1] : i \in 1..nSeg},
     TranslatedSegments |-> {},
     Files |-> {}]

\* the locals of a handler before its request
TranslateIdle ==
    [pc |-> "idle", route |-> "", transcriptionId |-> 0, targetLanguage |-> "",
     segments |-> <<>>, saved |-> 0, status |-> 0, event |-> ""]

InitTranslate ==
    /\ JobInit
    /\ disk = {}
    /\ SplitIdle
    /\ FnIdle
    /\ objects = {}
    /\ del = [pc |-> "none"]
    /\ loop = [pc |-> "none"]
    /\ rateLimitStore = <<>>
    /\ now = 0
    /\ history = <<>>
    /\ transcribe = [pc |-> "none"]
    /\ \E nSeg \in 0..MaxSegments, owner \in {"u1", "u2"}, status \in {"processing", "completed"} :
          tables = TranslateTablesInit(nSeg, owner, status)
    /\ translate = [r \in TranslateRequests |-> TranslateIdle]

\* the Ids in ascending order (sort: 'StartTime'; the segments are stored in time order)
RECURSIVE SortedIds(_)
SortedIds(ids) ==
    IF ids = {} THEN <<>>
    ELSE LET m == CHOOSE x \in ids : \A y \in ids : x <= y
         IN <<m>> \o SortedIds(ids \ {m})

\* the Id the database gives the next row of a table
NextId(table) ==
    IF tables[table] = {} THEN 1
    ELSE 1 + (CHOOSE x \in {r.Id : r \in tables[table]} : \A r \in tables[table] : r.Id <= x)

\* createTranslatedSegmentRecords(...)[index]
TranslatedSegmentRecord(transcriptionId, originalSegments, index, targetLanguage) ==
    [TranscriptionId |-> transcriptionId,
     OriginalSegmentId |-> originalSegments[index + 1],
     SegmentIndex |-> index,
     TargetLanguage |-> targetLanguage]

\* the handler of request r answers: a JSON response with `status`, or (stream
\* route, after the stream was opened) the last event of the stream
TranslateRespond(r, status, event) ==
    translate' = [translate EXCEPT ![r].pc = "responded", ![r].status = status, ![r].event = event]

\* an error thrown inside the handler: 500 (translate), an 'error' event (stream)
TranslateFail(r) ==
    IF translate[r].route = "stream" THEN TranslateRespond(r, 200, "error")
    ELSE TranslateRespond(r, 500, "")

\* POST: auth, body, read of the transcription, ownership, Status 'completed'
TranslateBegin(r) ==
    /\ translate[r].pc = "idle"
    /\ \E route \in {"translate", "stream"}, id \in {1, 2}, lang \in TargetLanguages :
        LET transcription == ReadRow("Transcriptions", id)
            request == [TranslateIdle EXCEPT !.route = route, !.transcriptionId = id,
                                             !.targetLanguage = lang]
        IN translate' = [translate EXCEPT ![r] =
              IF transcription = NoRow THEN [request EXCEPT !.pc = "responded", !.status = 404]
              ELSE IF transcription.UserId # SessionUser
                   THEN [request EXCEPT !.pc = "responded", !.status = 403]
              ELSE IF transcription.Status # "completed"
                   THEN [request EXCEPT !.pc = "responded", !.status = 400]
              ELSE [request EXCEPT !.pc = "check"]]
    /\ UNCHANGED <<jobVars, disk, splitVars, fnVars, delVars, loop, rateLimitStore, now, history, transcribe>>

\* list(TranslatedSegments, where TranscriptionId and TargetLanguage, limit 1): 409 when a row exists
TranslateCheckExisting(r) ==
    /\ translate[r].pc = "check"
    /\ IF \E row \in tables.TranslatedSegments :
             /\ row.TranscriptionId = translate[r].transcriptionId
             /\ row.TargetLanguage = translate[r].targetLanguage
       THEN TranslateRespond(r, 409, "")
       ELSE translate' = [translate EXCEPT ![r].pc = "list"]
    /\ UNCHANGED <<jobVars, disk, splitVars, fnVars, delVars, loop, rateLimitStore, now, history, transcribe>>

\* list(TranscriptionSegments, where TranscriptionId, sort StartTime): 400 when there is none
TranslateListSegments(r) ==
    /\ translate[r].pc = "list"
    /\ LET ids == {s.Id : s \in {x \in tables.TranscriptionSegments :
                                    x.TranscriptionId = translate[r].transcriptionId}}
       IN IF ids = {} THEN TranslateRespond(r, 400, "")
          ELSE translate' = [translate EXCEPT ![r].pc = "translating", ![r].segments = SortedIds(ids)]
    /\ UNCHANGED <<jobVars, disk, splitVars, fnVars, delVars, loop, rateLimitStore, now, history, transcribe>>

\* await translationService.translateSegments(segments, ...): returns or throws
TranslateSegments(r) ==
    /\ translate[r].pc = "translating"
    /\ \E ok \in BOOLEAN :
        IF ok THEN translate' = [translate EXCEPT ![r].pc = "saving"]
        ELSE TranslateFail(r)
    /\ UNCHANGED <<jobVars, disk, splitVars, fnVars, delVars, loop, rateLimitStore, now, history, transcribe>>

\* for (const record of translatedRecords) await db.dbTableRow.create(...): one
\* pass of the loop; after the last record 201 (translate) or the 'complete' event
SaveTranslatedSegment(r) ==
    /\ translate[r].pc = "saving"
    /\ \E ok \in BOOLEAN :
        LET t == translate[r]
            record == TranslatedSegmentRecord(t.transcriptionId, t.segments, t.saved, t.targetLanguage)
            row == [Id |-> NextId("TranslatedSegments")] @@ record
        IN IF ok
           THEN /\ tables' = [tables EXCEPT !.TranslatedSegments = @ \cup {row}]
                /\ IF t.saved + 1 < Len(t.segments)
                   THEN translate' = [translate EXCEPT ![r].saved = t.saved + 1]
                   ELSE translate' = [translate EXCEPT ![r].saved = t.saved + 1,
                                                       ![r].pc = "responded",
                                                       ![r].status = IF t.route = "stream" THEN 200 ELSE 201,
                                                       ![r].event = IF t.route = "stream" THEN "complete" ELSE ""]
           ELSE /\ TranslateFail(r)
                /\ UNCHANGED tables
    /\ UNCHANGED <<jobVars, disk, splitVars, fnVars, objects, del, loop, rateLimitStore, now, history, transcribe>>

NextTranslate ==
    \E r \in TranslateRequests :
        \/ TranslateBegin(r)
        \/ TranslateCheckExisting(r)
        \/ TranslateListSegments(r)
        \/ TranslateSegments(r)
        \/ SaveTranslatedSegment(r)

SpecTranslate == InitTranslate /\ [][NextTranslate]_vars

\* C25: for every transcription, target language and segment index at most one
\* TranslatedSegments row exists, after any interleaving of requests of the two
\* routes; a request for a language that already has a translation is answered
\* 409 and creates no row.
C25_OneRowPerSegmentAndLanguage ==
    \A a, b \in tables.TranslatedSegments :
        (/\ a.TranscriptionId = b.TranscriptionId
         /\ a.TargetLanguage = b.TargetLanguage
         /\ a.SegmentIndex = b.SegmentIndex) => a = b

----------------------------------------------------------------------------
(* The background transcription (processTranscription) of a transcription  *)
(* created with Status 'pending' by POST /api/transcribe, one awaited call  *)
(* per step, while translation requests for it come in                     *)

InitTranscribe ==
    /\ JobInit
    /\ disk = {}
    /\ SplitIdle
    /\ FnIdle
    /\ objects = {}
    /\ del = [pc |-> "none"]
    /\ loop = [pc |-> "none"]
    /\ rateLimitStore = <<>>
    /\ now = 0
    /\ history = <<>>
    /\ tables = TranslateTablesInit(0, SessionUser, "pending")
    /\ transcribe = [pc |-> "start", transcriptionId |-> 1, segments |-> 0, stored |-> 0]
    /\ translate = [r \in TranslateRequests |-> TranslateIdle]

TranscribeUnchanged ==
    UNCHANGED <<jobVars, disk, splitVars, fnVars, objects, del,
                loop, rateLimitStore, now, history, translate>>

\* db.dbTableRow.update('noco', 'SubzCreator', 'Transcriptions', id, { Status })
UpdateStatus(id, status) ==
    tables' = [tables EXCEPT !.Transcriptions =
                  {IF row.Id = id THEN [row EXCEPT !.Status = status] ELSE row : row \in @}]

\* an awaited call throws: control passes to the catch block
TranscribeThrow ==
    /\ transcribe' = [transcribe EXCEPT !.pc = "catch"]
    /\ UNCHANGED tables

\* await update(..., { Status: 'processing' })
SetProcessing ==
    /\ transcribe.pc = "start"
    /\ \/ /\ UpdateStatus(transcribe.transcriptionId, "processing")
          /\ transcribe' = [transcribe EXCEPT !.pc = "asr"]
       \/ TranscribeThrow
    /\ TranscribeUnchanged

\* await asr.transcribeFromUrl(...): a result whose segments splitLongSegments
\* turns into n subtitle segments, or an error
TranscribeFromUrl ==
    /\ transcribe.pc = "asr"
    /\ \/ \E n \in 0..MaxSegments :
             transcribe' = [transcribe EXCEPT !.pc = "result", !.segments = n]
       \/ transcribe' = [transcribe EXCEPT !.pc = "catch"]
    /\ UNCHANGED tables
    /\ TranscribeUnchanged

\* await update(..., { Status: 'completed', TranscriptText, Language, ... })
SetCompleted ==
    /\ transcribe.pc = "result"
    /\ \/ /\ UpdateStatus(transcribe.transcriptionId, "completed")
          /\ transcribe' = [transcribe EXCEPT !.pc = "store"]
       \/ TranscribeThrow
    /\ TranscribeUnchanged

\* for (const segment of splitSegments) await create('TranscriptionSegments', ...):
\* one pass of the loop
StoreSegment ==
    /\ transcribe.pc = "store"
    /\ transcribe.stored < transcribe.segments
    /\ \/ /\ tables' = [tables EXCEPT !.TranscriptionSegments =
                           @ \cup {[Id |-> NextId("TranscriptionSegments"),
                                    TranscriptionId |-> transcribe.transcriptionId]}]
          /\ transcribe' = [transcribe EXCEPT !.stored = @ + 1]
       \/ TranscribeThrow
    /\ TranscribeUnchanged

\* the loop is over (or there were no segments): the function returns
TranscriptionStored ==
    /\ transcribe.pc = "store"
    /\ transcribe.stored = transcribe.segments
    /\ transcribe' = [transcribe EXCEPT !.pc = "done"]
    /\ UNCHANGED tables
    /\ TranscribeUnchanged

\* catch (error): await update(..., { Status: 'failed' }), which may fail too
SetFailed ==
    /\ transcribe.pc = "catch"
    /\ transcribe' = [transcribe EXCEPT !.pc = "done"]
    /\ \/ UpdateStatus(transcribe.transcriptionId, "failed")
       \/ UNCHANGED tables
    /\ TranscribeUnchanged

NextTranscribe ==
    \/ SetProcessing
    \/ TranscribeFromUrl
    \/ SetCompleted
    \/ StoreSegment
    \/ TranscriptionStored
    \/ SetFailed
    \/ NextTranslate

SpecTranscribe == InitTranscribe /\ [][NextTranscribe]_vars

\* C30: whenever the Transcriptions record has Status 'completed', all the
\* TranscriptionSegments rows of the subtitle segments of its ASR result exist.
C30_CompletedOnlyAfterSegmentsStored ==
    \A t \in tables.Transcriptions :
        (t.Id = transcribe.transcriptionId /\ t.Status = "completed") =>
            Cardinality({row \in tables.TranscriptionSegments : row.TranscriptionId = t.Id})
                = transcribe.segments

----------------------------------------------------------------------------
(* Claims about the jobs                                                   *)

Ended(j) == pc[j] = "done"

\* C1: once a job has finished (ready or error), no temp file created on its
\* behalf (original, audio, preview, thumbnail) exists in the scratch directory.
C1_NoTempFileLeft ==
    \A j \in Jobs : Ended(j) => JobFilesOnDisk(j) = {}

\* C2: when a fatal step has thrown, the finished job's record has Status 'error'
\* and ProcessingError equal to the thrown message (not ready, not processing).
C2_FatalEndsInError ==
    \A j \in Jobs :
        (Ended(j) /\ thrown[j] # "") =>
            /\ files[j].Status = "error"
            /\ files[j].ProcessingError = thrown[j]

\* C3: a codec invocation that does not return is cut off, so the job of a
\* hanging call eventually has status ready or error.
C3_HangIsCutOff ==
    \A j \in Jobs : (pc[j] = "hung") ~> (files[j].Status \in {"ready", "error"})

\* C4: Status is one of the four values; a job changes Status only from
\* processing, to ready or error; once ready or error, Status, ProcessingError
\* and the derived URLs of the record never change again.
C4_TerminalAbsorbing ==
    [][\A j \in Jobs :
        LET a == files[j]
            b == files'[j]
        IN /\ b.Status \in {"none", "uploading", "processing", "ready", "error"}
           /\ (a.Status # "none" => b.Status # "none")
           /\ (a.Status # b.Status =>
                  \/ a.Status = "none" /\ b.Status = "processing"
                  \/ a.Status = "processing" /\ b.Status \in {"ready", "error"})
           /\ (a.Status \in {"ready", "error"} =>
                  /\ b.Status = a.Status
                  /\ b.ProcessingError = a.ProcessingError
                  /\ b.AudioUrl = a.AudioUrl
                  /\ b.PreviewUrl = a.PreviewUrl
                  /\ b.ThumbnailUrl = a.ThumbnailUrl)]_vars

\* a finished job whose record is in a terminal state written before its last step
C4_Witness ==
    \E j \in Jobs : Ended(j) /\ files[j].Status \in {"ready", "error"}

\* C5: every write to a record in status processing stores a progress within
\* 0..100 that is not below the stored one (10 at creation), on both routes,
\* skipped updates included.
C5_ProgressMonotone ==
    [][\A j \in Jobs :
        /\ (files[j].Status = "none" /\ files'[j].Status # "none") =>
               files'[j].ProcessingProgress = 10
        /\ files[j].Status = "processing" =>
               /\ files'[j].ProcessingProgress \in 0..100
               /\ files'[j].ProcessingProgress >= files[j].ProcessingProgress]_vars

\* a progress update was skipped (the stored value is behind the job's position)
\* and a later one was written
C5_Witness ==
    \E j \in Jobs :
        /\ pc[j] = "finalize"
        /\ files[j].Status = "processing"
        /\ files[j].ProcessingProgress = ProgressAudio(req[j].route)

\* C6: a failed thumbnail extraction is not fatal: with every other step
\* succeeding, a video job ends ready with audio and preview URLs, no thumbnail
\* URL and no error; no record ever carries the thumbnail error.
C6_ThumbnailNonFatal ==
    \A j \in Jobs :
        /\ (Ended(j) /\ thumbFailed[j] /\ thrown[j] = "" /\ req[j].isVideo) =>
              /\ files[j].Status = "ready"
              /\ files[j].AudioUrl # ""
              /\ files[j].PreviewUrl # Null
              /\ files[j].ThumbnailUrl = Null
              /\ files[j].ProcessingError = ""
        /\ thumbFailed[j] =>
              /\ thrown[j] # ErrThumbnail
              /\ files[j].ProcessingError # ErrThumbnail
              /\ (thrown[j] = "" => files[j].Status # "error")

C6_Witness ==
    \E j \in Jobs :
        /\ Ended(j) /\ thumbFailed[j] /\ thrown[j] = "" /\ req[j].isVideo
        /\ files[j].Status = "ready"

\* processMediaFile has returned to processInBackground
Returned(j) ==
    pc[j] \in {"p_upload", "up_audio", "p_audio", "up_preview", "up_thumb", "p_final", "finalize"}

Started(j, sfx) ==
    \/ sfx \in JobFilesOnDisk(j)
    \/ sfx = SfxAudio /\ result[j].audioPath # NoPath
    \/ sfx = SfxPreview /\ result[j].previewPath # NoPath
    \/ sfx = SfxThumb /\ (result[j].thumbnailPath # NoPath \/ thumbFailed[j])

\* every transcoding step of job j has finished
Transcoded(j) ==
    /\ result[j].audioPath # NoPath
    /\ result[j].isVideo =>
           /\ result[j].previewPath # NoPath
           /\ result[j].thumbnailPath # NoPath \/ thumbFailed[j]

\* an artifact of job j has been uploaded or written to its record
Persisted(j) ==
    \/ urls[j] # NoUrls
    \/ files[j].Status = "ready"

C22_FailureIsFatalForStep ==
    \A j \in Jobs :
        /\ pc[j] \in {"audio", "preview", "thumb"} \/ Returned(j) =>
               result[j].isVideo = req[j].hasVideo
        /\ thumbFailed[j] => result[j].thumbnailPath = NoPath

\* C23: with jobs running concurrently in any interleaving, a step of one job
\* leaves every other job's record (status, progress, error, URLs), its
\* tempFiles array and locals, and the temp files created on its behalf as they
\* were: no file of another job is created or deleted by it.
C23_JobsIsolated ==
    [][\A j \in ConcurrentJobs :
          pc'[j] # pc[j] =>
              \A k \in ConcurrentJobs \ {j} :
                  /\ files'[k] = files[k]
                  /\ tempFiles'[k] = tempFiles[k]
                  /\ urls'[k] = urls[k]
                  /\ \A p \in (disk \ disk') \cup (disk' \ disk) :
                         \A sfx \in Suffixes : p # Resolve(disk, TempPath(k, sfx))]_vars

\* one job has failed and cleaned up while the other is still transcoding with
\* its temp files in place
C23_Witness ==
    \E j, k \in ConcurrentJobs :
        /\ j # k
        /\ pc[j] = "done" /\ files[j].Status = "error"
        /\ pc[k] = "thumb"
        /\ {SfxOrig, SfxAudio, SfxPreview} \subseteq JobFilesOnDisk(k)

====
